---------------------------- MODULE Spec2Model ----------------------------
(***************************************************************************)
(* A model of the job-posting extraction pipeline of the Tailored backend  *)
(* (src/backend/scraper.py) and of the prompt formatter that consumes its  *)
(* record (src/backend/main.py), and of the /generate handler that calls   *)
(* both (src/backend/api.py).                                              *)
(*                                                                         *)
(* Strings are sequences of lexemes.  A lexeme is a run of characters that *)
(* no pattern of the program can cut: a word, a number, one punctuation    *)
(* mark, one whitespace character.  Offsets into a text count lexemes, the *)
(* length of a string (Python's len) is the sum of its lexemes' character  *)
(* counts.  Characters outside ASCII are written U+<code point>.           *)
(***************************************************************************)
EXTENDS Integers, Sequences, FiniteSets, TLC

VARIABLES
    url,         \* the url scrape_job_posting is called with
    page,        \* the page behind the url: its visible text and its ld+json script
    text,        \* the visible text the extractors are applied to
    json_ld,     \* the structured metadata handed to extract_basic_info
    sections,    \* result of parse_job_text
    skills,      \* result of extract_skills
    info,        \* result of extract_basic_info
    prompt,      \* result of format_job_for_prompt
    pc,          \* position of the call: "call", "return", "raise", "prompt"
    job_data,    \* the record scrape_job_posting returns
    failed,      \* the steps of the call that raised
    request,     \* the form of a /generate request
    status,      \* the HTTP status of the response, 0 while there is none
    calls,       \* the collaborators the handler has called, with their arguments
    raised,      \* what was raised inside the handler's try block, "" when nothing
    reply,       \* the language model's answer to get_company_info
    scrapes,     \* the locals of each of the concurrent calls of scrape_job_posting
    records,     \* the job_data dict of each of the concurrent calls
    tasks,       \* where each of the concurrent /generate requests stands
    pool,        \* the shared executor: its queue of jobs and the jobs its workers run
    letter,      \* the sections of a cover letter
    response,    \* what /generate answers with: the injected LaTeX and the fields
    injection    \* build_template_injection: its arguments, its locals and its result

handler == <<request, status, calls, raised, reply>>

concurrent == <<scrapes, records, tasks, pool>>

letters == <<letter, response, injection>>

vars ==
    <<url, page, text, json_ld, sections, skills, info, prompt, pc, job_data, failed,
      request, status, calls, raised, reply, scrapes, records, tasks, pool,
      letter, response, injection>>

\* JSON values and Python's None, tagged with their type
None == [t |-> "null"]
NoRequest == [t |-> "absent"]
NoReply == [t |-> "unasked"]
JStr(s) == [t |-> "str", v |-> s]
JNum(n) == [t |-> "num", v |-> n]
JList(s) == [t |-> "list", v |-> s]
JDict(f) == [t |-> "dict", v |-> f]

\* ------------------------------------------------------------------------
\* Lexicon: the character data of the lexemes the inputs are built from.
\* ------------------------------------------------------------------------
\*<lexicon>
LexLen ==
    " " :> 1 @@
    "\n" :> 1 @@
    "." :> 1 @@
    "," :> 1 @@
    ":" :> 1 @@
    "-" :> 1 @@
    "*" :> 1 @@
    "+" :> 1 @@
    "#" :> 1 @@
    "U+2022" :> 1 @@
    "U+2013" :> 1 @@
    "$" :> 1 @@
    "/" :> 1 @@
    "'ll" :> 3 @@
    "(" :> 1 @@
    ")" :> 1 @@
    "0" :> 1 @@
    "1" :> 1 @@
    "3" :> 1 @@
    "5" :> 1 @@
    "25" :> 2 @@
    "50" :> 2 @@
    "000" :> 3 @@
    "70" :> 2 @@
    "90" :> 2 @@
    "Remote" :> 6 @@
    "remote" :> 6 @@
    "Hybrid" :> 6 @@
    "hybrid" :> 6 @@
    "days" :> 4 @@
    "day" :> 3 @@
    "per" :> 3 @@
    "week" :> 4 @@
    "in" :> 2 @@
    "office" :> 6 @@
    "on" :> 2 @@
    "On" :> 2 @@
    "site" :> 4 @@
    "onsite" :> 6 @@
    "salary" :> 6 @@
    "Salary" :> 6 @@
    "pay" :> 3 @@
    "year" :> 4 @@
    "Year" :> 4 @@
    "YEAR" :> 4 @@
    "hour" :> 4 @@
    "HOUR" :> 4 @@
    "hr" :> 2 @@
    "Engineer" :> 8 @@
    "Acme" :> 4 @@
    "Berlin" :> 6 @@
    "Germany" :> 7 @@
    "DE" :> 2 @@
    "FULL_TIME" :> 9 @@
    "Job" :> 3 @@
    "Title" :> 5 @@
    "Company" :> 7 @@
    "Location" :> 8 @@
    "Work" :> 4 @@
    "Arrangement" :> 11 @@
    "Skills" :> 6 @@
    "Mentioned" :> 9 @@
    "Full" :> 4 @@
    "Posting" :> 7 @@
    "Text" :> 4 @@
    "Key" :> 3 @@
    "Your" :> 4 @@
    "This" :> 4 @@
    "job" :> 3 @@
    "position" :> 8 @@
    "description" :> 11 @@
    "be" :> 2 @@
    "doing" :> 5 @@
    "As" :> 2 @@
    "a" :> 1 @@
    "cv" :> 2 @@
    "CV" :> 2 @@
    "pdf" :> 3 @@
    "PDF" :> 3 @@
    "txt" :> 3 @@
    "N" :> 1 @@
    "A" :> 1 @@
    "Unknown" :> 7 @@
    "null" :> 4 @@
    "What" :> 4 @@
    "you" :> 3 @@
    "will" :> 4 @@
    "do" :> 2 @@
    "Requirements" :> 12 @@
    "Responsibilities" :> 16 @@
    "Preferred" :> 9 @@
    "Qualifications" :> 14 @@
    "About" :> 5 @@
    "the" :> 3 @@
    "role" :> 4 @@
    "us" :> 2 @@
    "Benefits" :> 8 @@
    "Bonus" :> 5 @@
    "The" :> 3 @@
    "Build scalable backend services for our platform" :> 48 @@
    "Collaborate with cross-functional teams on" :> 42 @@
    "years of experience with" :> 24 @@
    "Strong knowledge of" :> 19 @@
    "distributed" :> 11 @@
    "systems" :> 7 @@
    "system" :> 6 @@
    "design" :> 6 @@
    "Design and own the checkout" :> 27 @@
    "API" :> 3 @@
    "end-to-end" :> 10 @@
    "Apply" :> 5 @@
    "now" :> 3 @@
    "to join the engineering team" :> 28 @@
    "Python" :> 6 @@
    "python" :> 6 @@
    "PYTHON" :> 6 @@
    "Go" :> 2 @@
    "go" :> 2 @@
    "GO" :> 2 @@
    "Java" :> 4 @@
    "java" :> 4 @@
    "JavaScript" :> 10 @@
    "and" :> 3 @@
    "AI" :> 2 @@
    "ai" :> 2 @@
    "Ai" :> 2 @@
    "C" :> 1 @@
    "c" :> 1 @@
    "x" :> 1
LexLower ==
    " " :> " " @@
    "\n" :> "\n" @@
    "." :> "." @@
    "," :> "," @@
    ":" :> ":" @@
    "-" :> "-" @@
    "*" :> "*" @@
    "+" :> "+" @@
    "#" :> "#" @@
    "U+2022" :> "U+2022" @@
    "U+2013" :> "U+2013" @@
    "$" :> "$" @@
    "/" :> "/" @@
    "'ll" :> "'ll" @@
    "(" :> "(" @@
    ")" :> ")" @@
    "0" :> "0" @@
    "1" :> "1" @@
    "3" :> "3" @@
    "5" :> "5" @@
    "25" :> "25" @@
    "50" :> "50" @@
    "000" :> "000" @@
    "70" :> "70" @@
    "90" :> "90" @@
    "Remote" :> "remote" @@
    "remote" :> "remote" @@
    "Hybrid" :> "hybrid" @@
    "hybrid" :> "hybrid" @@
    "days" :> "days" @@
    "day" :> "day" @@
    "per" :> "per" @@
    "week" :> "week" @@
    "in" :> "in" @@
    "office" :> "office" @@
    "on" :> "on" @@
    "On" :> "on" @@
    "site" :> "site" @@
    "onsite" :> "onsite" @@
    "salary" :> "salary" @@
    "Salary" :> "salary" @@
    "pay" :> "pay" @@
    "year" :> "year" @@
    "Year" :> "year" @@
    "YEAR" :> "year" @@
    "hour" :> "hour" @@
    "HOUR" :> "hour" @@
    "hr" :> "hr" @@
    "Engineer" :> "engineer" @@
    "Acme" :> "acme" @@
    "Berlin" :> "berlin" @@
    "Germany" :> "germany" @@
    "DE" :> "de" @@
    "FULL_TIME" :> "full_time" @@
    "Job" :> "job" @@
    "Title" :> "title" @@
    "Company" :> "company" @@
    "Location" :> "location" @@
    "Work" :> "work" @@
    "Arrangement" :> "arrangement" @@
    "Skills" :> "skills" @@
    "Mentioned" :> "mentioned" @@
    "Full" :> "full" @@
    "Posting" :> "posting" @@
    "Text" :> "text" @@
    "Key" :> "key" @@
    "Your" :> "your" @@
    "This" :> "this" @@
    "job" :> "job" @@
    "position" :> "position" @@
    "description" :> "description" @@
    "be" :> "be" @@
    "doing" :> "doing" @@
    "As" :> "as" @@
    "a" :> "a" @@
    "cv" :> "cv" @@
    "CV" :> "cv" @@
    "pdf" :> "pdf" @@
    "PDF" :> "pdf" @@
    "txt" :> "txt" @@
    "N" :> "n" @@
    "A" :> "a" @@
    "Unknown" :> "unknown" @@
    "null" :> "null" @@
    "What" :> "what" @@
    "you" :> "you" @@
    "will" :> "will" @@
    "do" :> "do" @@
    "Requirements" :> "requirements" @@
    "Responsibilities" :> "responsibilities" @@
    "Preferred" :> "preferred" @@
    "Qualifications" :> "qualifications" @@
    "About" :> "about" @@
    "the" :> "the" @@
    "role" :> "role" @@
    "us" :> "us" @@
    "Benefits" :> "benefits" @@
    "Bonus" :> "bonus" @@
    "The" :> "the" @@
    "Build scalable backend services for our platform" :> "build scalable backend services for our platform" @@
    "Collaborate with cross-functional teams on" :> "collaborate with cross-functional teams on" @@
    "years of experience with" :> "years of experience with" @@
    "Strong knowledge of" :> "strong knowledge of" @@
    "distributed" :> "distributed" @@
    "systems" :> "systems" @@
    "system" :> "system" @@
    "design" :> "design" @@
    "Design and own the checkout" :> "design and own the checkout" @@
    "API" :> "api" @@
    "end-to-end" :> "end-to-end" @@
    "Apply" :> "apply" @@
    "now" :> "now" @@
    "to join the engineering team" :> "to join the engineering team" @@
    "Python" :> "python" @@
    "python" :> "python" @@
    "PYTHON" :> "python" @@
    "Go" :> "go" @@
    "go" :> "go" @@
    "GO" :> "go" @@
    "Java" :> "java" @@
    "java" :> "java" @@
    "JavaScript" :> "javascript" @@
    "and" :> "and" @@
    "AI" :> "ai" @@
    "ai" :> "ai" @@
    "Ai" :> "ai" @@
    "C" :> "c" @@
    "c" :> "c" @@
    "x" :> "x"
LexRank ==
    " " :> 2 @@
    "\n" :> 1 @@
    "." :> 12 @@
    "," :> 10 @@
    ":" :> 23 @@
    "-" :> 11 @@
    "*" :> 8 @@
    "+" :> 9 @@
    "#" :> 3 @@
    "U+2022" :> 109 @@
    "U+2013" :> 108 @@
    "$" :> 4 @@
    "/" :> 13 @@
    "'ll" :> 5 @@
    "(" :> 6 @@
    ")" :> 7 @@
    "0" :> 14 @@
    "1" :> 16 @@
    "3" :> 18 @@
    "5" :> 19 @@
    "25" :> 17 @@
    "50" :> 20 @@
    "000" :> 15 @@
    "70" :> 21 @@
    "90" :> 22 @@
    "remote" :> 81 @@
    "hybrid" :> 59 @@
    "days" :> 43 @@
    "day" :> 42 @@
    "per" :> 75 @@
    "week" :> 99 @@
    "in" :> 60 @@
    "office" :> 70 @@
    "on" :> 71 @@
    "site" :> 86 @@
    "onsite" :> 72 @@
    "salary" :> 85 @@
    "pay" :> 73 @@
    "year" :> 104 @@
    "hour" :> 57 @@
    "hr" :> 58 @@
    "engineer" :> 52 @@
    "acme" :> 26 @@
    "berlin" :> 35 @@
    "germany" :> 55 @@
    "de" :> 44 @@
    "full_time" :> 54 @@
    "job" :> 63 @@
    "title" :> 94 @@
    "company" :> 40 @@
    "location" :> 65 @@
    "work" :> 102 @@
    "arrangement" :> 31 @@
    "skills" :> 87 @@
    "mentioned" :> 66 @@
    "full" :> 53 @@
    "posting" :> 77 @@
    "text" :> 91 @@
    "key" :> 64 @@
    "your" :> 107 @@
    "this" :> 93 @@
    "position" :> 76 @@
    "description" :> 45 @@
    "be" :> 33 @@
    "doing" :> 50 @@
    "as" :> 32 @@
    "a" :> 24 @@
    "cv" :> 41 @@
    "pdf" :> 74 @@
    "txt" :> 96 @@
    "n" :> 67 @@
    "unknown" :> 97 @@
    "null" :> 69 @@
    "what" :> 100 @@
    "you" :> 106 @@
    "will" :> 101 @@
    "do" :> 49 @@
    "requirements" :> 82 @@
    "responsibilities" :> 83 @@
    "preferred" :> 78 @@
    "qualifications" :> 80 @@
    "about" :> 25 @@
    "the" :> 92 @@
    "role" :> 84 @@
    "us" :> 98 @@
    "benefits" :> 34 @@
    "bonus" :> 36 @@
    "build scalable backend services for our platform" :> 37 @@
    "collaborate with cross-functional teams on" :> 39 @@
    "years of experience with" :> 105 @@
    "strong knowledge of" :> 88 @@
    "distributed" :> 48 @@
    "systems" :> 90 @@
    "system" :> 89 @@
    "design" :> 46 @@
    "design and own the checkout" :> 47 @@
    "api" :> 29 @@
    "end-to-end" :> 51 @@
    "apply" :> 30 @@
    "now" :> 68 @@
    "to join the engineering team" :> 95 @@
    "python" :> 79 @@
    "go" :> 56 @@
    "java" :> 61 @@
    "javascript" :> 62 @@
    "and" :> 28 @@
    "ai" :> 27 @@
    "c" :> 38 @@
    "x" :> 103
WordStart == {
    "0", "1", "3", "5", "25", "50", "000", "70", "90", "Remote", "remote",
    "Hybrid", "hybrid", "days", "day", "per", "week", "in", "office", "on",
    "On", "site", "onsite", "salary", "Salary", "pay", "year", "Year", "YEAR",
    "hour", "HOUR", "hr", "Engineer", "Acme", "Berlin", "Germany", "DE",
    "FULL_TIME", "Job", "Title", "Company", "Location", "Work", "Arrangement",
    "Skills", "Mentioned", "Full", "Posting", "Text", "Key", "Your", "This",
    "job", "position", "description", "be", "doing", "As", "a", "cv", "CV",
    "pdf", "PDF", "txt", "N", "A", "Unknown", "null", "What", "you", "will",
    "do", "Requirements", "Responsibilities", "Preferred", "Qualifications",
    "About", "the", "role", "us", "Benefits", "Bonus", "The",
    "Build scalable backend services for our platform",
    "Collaborate with cross-functional teams on", "years of experience with",
    "Strong knowledge of", "distributed", "systems", "system", "design",
    "Design and own the checkout", "API", "end-to-end", "Apply", "now",
    "to join the engineering team", "Python", "python", "PYTHON", "Go", "go",
    "GO", "Java", "java", "JavaScript", "and", "AI", "ai", "Ai", "C", "c", "x"}
WordEnd == {
    "'ll", "0", "1", "3", "5", "25", "50", "000", "70", "90", "Remote",
    "remote", "Hybrid", "hybrid", "days", "day", "per", "week", "in",
    "office", "on", "On", "site", "onsite", "salary", "Salary", "pay", "year",
    "Year", "YEAR", "hour", "HOUR", "hr", "Engineer", "Acme", "Berlin",
    "Germany", "DE", "FULL_TIME", "Job", "Title", "Company", "Location",
    "Work", "Arrangement", "Skills", "Mentioned", "Full", "Posting", "Text",
    "Key", "Your", "This", "job", "position", "description", "be", "doing",
    "As", "a", "cv", "CV", "pdf", "PDF", "txt", "N", "A", "Unknown", "null",
    "What", "you", "will", "do", "Requirements", "Responsibilities",
    "Preferred", "Qualifications", "About", "the", "role", "us", "Benefits",
    "Bonus", "The", "Build scalable backend services for our platform",
    "Collaborate with cross-functional teams on", "years of experience with",
    "Strong knowledge of", "distributed", "systems", "system", "design",
    "Design and own the checkout", "API", "end-to-end", "Apply", "now",
    "to join the engineering team", "Python", "python", "PYTHON", "Go", "go",
    "GO", "Java", "java", "JavaScript", "and", "AI", "ai", "Ai", "C", "c", "x"}
Digits == {
    "0", "1", "3", "5", "25", "50", "000", "70", "90"}
\*</lexicon>

Space == {" ", "\n"}

RECURSIVE StrLen(_)
StrLen(s) == IF s = <<>> THEN 0 ELSE LexLen[Head(s)] + StrLen(Tail(s))

Lower(s) == [i \in 1..Len(s) |-> LexLower[s[i]]]

\* Python's s[a:b] for 0 <= a, 0 <= b
Slice(s, a, b) == SubSeq(s, a + 1, IF b > Len(s) THEN Len(s) ELSE b)

\* needle in haystack
Contains(hay, needle) ==
    \E a \in 0..(Len(hay) - Len(needle)) : Slice(hay, a, a + Len(needle)) = needle

RECURSIVE LStrip(_)
LStrip(s) == IF s # <<>> /\ Head(s) \in Space THEN LStrip(Tail(s)) ELSE s

RECURSIVE RStrip(_)
RStrip(s) ==
    IF s # <<>> /\ s[Len(s)] \in Space THEN RStrip(SubSeq(s, 1, Len(s) - 1)) ELSE s

Strip(s) == RStrip(LStrip(s))

\* ------------------------------------------------------------------------
\* Regular expressions (Python's re, backtracking, leftmost match with the
\* alternatives and the greedy repetitions tried in priority order).
\* ------------------------------------------------------------------------
Lit(w) == [k |-> "lit", w |-> w]            \* a literal, re.IGNORECASE
One(s) == [k |-> "one", s |-> s]            \* one character of a class
Rep(s, m) == [k |-> "rep", s |-> s, m |-> m] \* class repeated >= m times, greedy
Dot(m, n) == [k |-> "dot", m |-> m, n |-> n] \* .{m,n}
Opt(r) == [k |-> "opt", r |-> r]            \* (?:r)?
Alt(rs) == [k |-> "alt", rs |-> rs]         \* r1|r2|...
Cat(rs) == [k |-> "cat", rs |-> rs]         \* r1 r2 ...
Grp(i, r) == [k |-> "grp", i |-> i, r |-> r] \* capturing group number i
Bol == [k |-> "bol"]                        \* ^ under re.MULTILINE
Eol == [k |-> "eol"]                        \* $ under re.MULTILINE
WordB == [k |-> "wordb"]                    \* \b
NL == One({"\n"})
WS0 == Rep(Space, 0)                        \* \s*
WS1 == Rep(Space, 1)                        \* \s+

NoGroups == [i \in 1..3 |-> <<-1, -1>>]

\* the number of lexemes of class s starting at offset p
RECURSIVE Run(_, _, _)
Run(t, p, s) == IF p < Len(t) /\ t[p + 1] \in s THEN 1 + Run(t, p + 1, s) ELSE 0

\* the offsets p+hi, p+hi-1, ..., p+lo as matches
RECURSIVE Down(_, _, _, _)
Down(p, hi, lo, g) ==
    IF hi < lo THEN <<>> ELSE <<[e |-> p + hi, g |-> g]>> \o Down(p, hi - 1, lo, g)

\* the number of lexemes from offset p that . can take within n characters
RECURSIVE DotRun(_, _, _)
DotRun(t, p, n) ==
    IF p < Len(t) /\ t[p + 1] # "\n" /\ LexLen[t[p + 1]] <= n
    THEN 1 + DotRun(t, p + 1, n - LexLen[t[p + 1]])
    ELSE 0

\* the least number of lexemes from offset p holding at least m characters
RECURSIVE DotMin(_, _, _)
DotMin(t, p, m) ==
    IF m <= 0 THEN 0
    ELSE IF p < Len(t) THEN 1 + DotMin(t, p + 1, m - LexLen[t[p + 1]])
    ELSE 1

IsWordBefore(t, p) == p > 0 /\ t[p] \in WordEnd
IsWordAfter(t, p) == p < Len(t) /\ t[p + 1] \in WordStart

\* Match(r, t, p, g): the ways r matches t at offset p, in the order the
\* backtracking matcher tries them, each with its end offset and its groups.
RECURSIVE Match(_, _, _, _), MatchCat(_, _, _, _, _), MatchAlt(_, _, _, _, _),
          MatchRest(_, _, _, _, _)
Match(r, t, p, g) ==
    CASE r.k = "lit" ->
            IF p < Len(t) /\ LexLower[t[p + 1]] = r.w
            THEN <<[e |-> p + 1, g |-> g]>> ELSE <<>>
      [] r.k = "one" ->
            IF p < Len(t) /\ t[p + 1] \in r.s
            THEN <<[e |-> p + 1, g |-> g]>> ELSE <<>>
      [] r.k = "rep" -> Down(p, Run(t, p, r.s), r.m, g)
      [] r.k = "dot" -> Down(p, DotRun(t, p, r.n), DotMin(t, p, r.m), g)
      [] r.k = "opt" -> Match(r.r, t, p, g) \o <<[e |-> p, g |-> g]>>
      [] r.k = "alt" -> MatchAlt(r.rs, 1, t, p, g)
      [] r.k = "cat" -> MatchCat(r.rs, 1, t, p, g)
      [] r.k = "grp" ->
            LET ms == Match(r.r, t, p, g)
            IN  [j \in 1..Len(ms) |->
                    [e |-> ms[j].e, g |-> [ms[j].g EXCEPT ![r.i] = <<p, ms[j].e>>]]]
      [] r.k = "bol" ->
            IF p = 0 \/ t[p] = "\n" THEN <<[e |-> p, g |-> g]>> ELSE <<>>
      [] r.k = "eol" ->
            IF p = Len(t) \/ t[p + 1] = "\n" THEN <<[e |-> p, g |-> g]>> ELSE <<>>
      [] r.k = "wordb" ->
            IF IsWordBefore(t, p) # IsWordAfter(t, p)
            THEN <<[e |-> p, g |-> g]>> ELSE <<>>

MatchAlt(rs, i, t, p, g) ==
    IF i > Len(rs) THEN <<>>
    ELSE Match(rs[i], t, p, g) \o MatchAlt(rs, i + 1, t, p, g)

MatchCat(rs, i, t, p, g) ==
    IF i > Len(rs) THEN <<[e |-> p, g |-> g]>>
    ELSE MatchRest(rs, i, t, Match(rs[i], t, p, g), 1)

MatchRest(rs, i, t, ms, j) ==
    IF j > Len(ms) THEN <<>>
    ELSE MatchCat(rs, i + 1, t, ms[j].e, ms[j].g) \o MatchRest(rs, i, t, ms, j + 1)

\* re.search(r, t) from offset p on: the leftmost match, or NoMatch
NoMatch == [s |-> -1, e |-> -1, g |-> NoGroups]

RECURSIVE SearchFrom(_, _, _)
SearchFrom(r, t, p) ==
    IF p > Len(t) THEN NoMatch
    ELSE LET ms == Match(r, t, p, NoGroups)
         IN  IF ms # <<>> THEN [s |-> p, e |-> ms[1].e, g |-> ms[1].g]
             ELSE SearchFrom(r, t, p + 1)

\* re.finditer(r, t): the non-overlapping matches from left to right
RECURSIVE FindIter(_, _, _)
FindIter(r, t, p) ==
    LET m == SearchFrom(r, t, p)
    IN  IF m = NoMatch THEN <<>>
        ELSE <<m>> \o FindIter(r, t, IF m.e > m.s THEN m.e ELSE m.e + 1)

\* ------------------------------------------------------------------------
\* extract_skills (scraper.py:78-108)
\* ------------------------------------------------------------------------
SkillGroup(alts) == Cat(<<WordB, Grp(1, Alt(alts)), WordB>>)

\*<skill_patterns>
skill_patterns == <<
    SkillGroup(<<
        Lit("python"), Lit("java"), Lit("javascript"), Lit("typescript"),
        Cat(<<Lit("c"), Lit("+"), Lit("+")>>), Cat(<<Lit("c"), Lit("#")>>),
        Lit("go"), Lit("golang"), Lit("rust"), Lit("ruby"), Lit("php"),
        Lit("swift"), Lit("kotlin"), Lit("scala")>>),
    SkillGroup(<<
        Lit("react"), Lit("angular"), Lit("vue"),
        Cat(<<Lit("next"), Lit("."), Lit("js")>>),
        Cat(<<Lit("node"), Lit("."), Lit("js")>>), Lit("express"),
        Lit("django"), Lit("flask"), Lit("fastapi"), Lit("spring"),
        Cat(<<Lit("."), Lit("net")>>), Lit("rails")>>),
    SkillGroup(<<
        Lit("aws"),
        Cat(<<Lit("amazon"), Lit(" "), Lit("web"), Lit(" "), Lit("services")>>),
        Lit("azure"), Lit("gcp"),
        Cat(<<Lit("google"), Lit(" "), Lit("cloud")>>), Lit("docker"),
        Lit("kubernetes"), Lit("k8s"), Lit("jenkins"), Lit("circleci"),
        Cat(<<Lit("github"), Lit(" "), Lit("actions")>>)>>),
    SkillGroup(<<
        Lit("sql"), Lit("mysql"), Lit("postgresql"), Lit("postgres"),
        Lit("mongodb"), Lit("redis"), Lit("elasticsearch"), Lit("dynamodb"),
        Lit("cassandra"), Lit("nosql")>>),
    SkillGroup(<<
        Lit("html"), Lit("css"), Lit("sass"), Lit("less"), Lit("rest"),
        Lit("restful"), Lit("graphql"), Lit("grpc"), Lit("api"), Lit("apis")>>),
    SkillGroup(<<
        Cat(<<Lit("machine"), Lit(" "), Lit("learning")>>), Lit("ml"),
        Lit("ai"), Cat(<<Lit("artificial"), Lit(" "), Lit("intelligence")>>),
        Cat(<<Lit("deep"), Lit(" "), Lit("learning")>>), Lit("nlp"),
        Cat(<<Lit("computer"), Lit(" "), Lit("vision")>>)>>),
    SkillGroup(<<
        Lit("tensorflow"), Lit("pytorch"), Lit("keras"),
        Cat(<<Lit("scikit"), Lit("-"), Lit("learn")>>), Lit("pandas"),
        Lit("numpy")>>),
    SkillGroup(<<
        Lit("git"), Lit("github"), Lit("gitlab"), Lit("bitbucket"), Lit("svn")>>),
    SkillGroup(<<
        Lit("linux"), Lit("unix"), Lit("bash"), Lit("shell"),
        Lit("powershell")>>),
    SkillGroup(<<
        Lit("terraform"), Lit("ansible"), Lit("puppet"), Lit("chef"),
        Lit("cloudformation")>>),
    SkillGroup(<<
        Lit("agile"), Lit("scrum"), Lit("kanban"),
        Cat(<<Lit("ci"), Lit("/"), Lit("cd")>>), Lit("devops"), Lit("sre")>>),
    SkillGroup(<<
        Lit("kafka"), Lit("rabbitmq"), Lit("sqs"),
        Cat(<<Lit("pub"), Lit("/"), Lit("sub")>>),
        Cat(<<Lit("message"), Lit(" "), Lit("queue")>>)>>),
    SkillGroup(<<
        Lit("microservices"),
        Cat(<<Lit("distributed"), Lit(" "), Lit("systems")>>),
        Cat(<<Lit("system"), Lit(" "), Lit("design")>>)>>),
    SkillGroup(<<
        Lit("oauth"), Lit("jwt"), Lit("ssl"), Lit("tls"), Lit("security"),
        Lit("authentication"), Lit("authorization")>>)
>>
\*</skill_patterns>

\* re.findall(pattern, text, re.IGNORECASE) of a pattern with one group:
\* the text of group 1 of each match
FindAll(pattern, t) ==
    LET ms == FindIter(pattern, t, 0)
    IN  [j \in 1..Len(ms) |-> Slice(t, ms[j].g[1][1], ms[j].g[1][2])]

HasKey(d, key) == \E j \in 1..Len(d) : d[j].k = key

\* a mutation of AddSkill: a later casing variant replaces the stored one
AddSkillLastWins(d, skill) ==
    IF HasKey(d, Lower(skill))
    THEN [j \in 1..Len(d) |->
            IF d[j].k = Lower(skill) THEN [k |-> d[j].k, v |-> skill] ELSE d[j]]
    ELSE Append(d, [k |-> Lower(skill), v |-> skill])

\* a mutation of AddSkill: the dictionary is keyed by the skill as written
AddSkillExactKey(d, skill) ==
    IF HasKey(d, skill) THEN d ELSE Append(d, [k |-> skill, v |-> skill])

\* skills[skill_lower] = skill unless the key is present; the dictionary is
\* the sequence of its items in insertion order
AddSkill(d, skill) ==
    IF HasKey(d, Lower(skill)) THEN d ELSE Append(d, [k |-> Lower(skill), v |-> skill])

RECURSIVE AddAll(_, _, _)
AddAll(d, matches, j) ==
    IF j > Len(matches) THEN d ELSE AddAll(AddSkill(d, matches[j]), matches, j + 1)

RECURSIVE SkillDict(_, _, _, _)
SkillDict(patterns, i, t, d) ==
    IF i > Len(patterns) THEN d
    ELSE SkillDict(patterns, i + 1, t, AddAll(d, FindAll(patterns[i], t), 1))

\* a < b for strings, by the code points of their characters
RECURSIVE StrLess(_, _)
StrLess(a, b) ==
    IF b = <<>> THEN FALSE
    ELSE IF a = <<>> THEN TRUE
    ELSE IF Head(a) = Head(b) THEN StrLess(Tail(a), Tail(b))
    ELSE LexRank[Head(a)] < LexRank[Head(b)]

\* the order of sorted(..., key=str.lower)
KeyLess(a, b) == StrLess(Lower(a), Lower(b))

\* sorted() is stable: x goes after the entries that are not greater
RECURSIVE InsertSorted(_, _)
InsertSorted(s, x) ==
    IF s = <<>> THEN <<x>>
    ELSE IF KeyLess(x, Head(s)) THEN <<x>> \o s
    ELSE <<Head(s)>> \o InsertSorted(Tail(s), x)

RECURSIVE SortedByLower(_)
SortedByLower(s) ==
    IF s = <<>> THEN <<>>
    ELSE InsertSorted(SortedByLower(SubSeq(s, 1, Len(s) - 1)), s[Len(s)])

ExtractSkillsWith(patterns, t) ==
    LET d == SkillDict(patterns, 1, t, <<>>)
    IN  SortedByLower([j \in 1..Len(d) |-> d[j].v])

extract_skills(t) == ExtractSkillsWith(skill_patterns, t)

\* ------------------------------------------------------------------------
\* clean_text (scraper.py:70-75)
\* ------------------------------------------------------------------------
\* re.sub(r'\s+', ' ', text): every run of whitespace becomes one space
RECURSIVE CollapseSpace(_)
CollapseSpace(s) ==
    IF s = <<>> THEN <<>>
    ELSE IF Head(s) \in Space THEN <<" ">> \o CollapseSpace(LStrip(s))
    ELSE <<Head(s)>> \o CollapseSpace(Tail(s))

clean_text(s) == IF s = <<>> THEN <<>> ELSE Strip(CollapseSpace(s))

\* ------------------------------------------------------------------------
\* parse_job_text (scraper.py:111-213)
\* ------------------------------------------------------------------------
\* (?:^|\n)\s* h \s*[:\-]?\s*(?:\n|$)
Heading(h) ==
    Cat(<<Alt(<<Bol, NL>>), WS0>> \o h \o
        <<WS0, Opt(One({":", "-"})), WS0, Alt(<<NL, Eol>>)>>)

section_patterns == <<
    [type |-> "responsibilities", patterns |-> <<
        Heading(<<Opt(Cat(<<Lit("key"), WS1>>)), Lit("responsibilities")>>),
        Heading(<<Lit("what"), WS1, Lit("you"),
                  Alt(<<Lit("'ll"), Cat(<<Rep(Space \cup {"-"}, 1), Lit("will")>>)>>),
                  WS1, Alt(<<Lit("do"), Cat(<<Lit("be"), Lit(" "), Lit("doing")>>)>>)>>),
        Heading(<<Lit("your"), WS1, Alt(<<Lit("role"), Lit("responsibilities")>>)>>),
        Heading(<<Alt(<<Lit("the"), Lit("this")>>), WS1, Lit("role")>>),
        Heading(<<Lit("about"), WS1, Lit("the"), WS1,
                  Alt(<<Lit("role"), Lit("job"), Lit("position")>>)>>),
        Heading(<<Lit("job"), WS1, Lit("description")>>),
        Heading(<<Lit("as"), WS1, Lit("a"), WS1, Dot(0, 50),
                  Lit("you"), WS1, Lit("will")>>)>>],
    [type |-> "requirements", patterns |-> <<
        Heading(<<Opt(Cat(<<Lit("minimum"), WS1>>)),
                  Alt(<<Lit("requirements"), Lit("qualifications")>>)>>),
        Heading(<<Lit("what"), WS1, Lit("we"),
                  Alt(<<Lit("'re"), Cat(<<WS1, Lit("are")>>)>>),
                  WS1, Lit("looking"), WS1, Lit("for")>>),
        Heading(<<Lit("who"), WS1, Lit("you"), WS1, Lit("are")>>),
        Heading(<<Alt(<<Lit("required"), Lit("preferred")>>), WS1,
                  Alt(<<Lit("skills"), Lit("experience"), Lit("qualifications")>>)>>),
        Heading(<<Lit("you"), Alt(<<Lit("'ll"), Cat(<<WS1, Lit("will")>>)>>), WS1,
                  Alt(<<Lit("need"), Lit("have"), Lit("bring")>>)>>),
        Heading(<<Alt(<<Lit("basic"), Lit("minimum")>>), WS1, Lit("qualifications")>>),
        Heading(<<Lit("skills"), WS1, Alt(<<Lit("and"), Lit("&")>>), WS1,
                  Alt(<<Lit("experience"), Lit("qualifications")>>)>>),
        Heading(<<Lit("what"), WS1, Lit("you"), Opt(Lit("'ll")), WS1,
                  Alt(<<Lit("need"), Lit("bring")>>)>>)>>],
    [type |-> "preferred", patterns |-> <<
        Heading(<<Alt(<<Cat(<<Lit("nice"), WS1, Lit("to"), WS1, Lit("have")>>),
                        Lit("preferred"), Lit("bonus")>>)>>),
        Heading(<<Lit("preferred"), WS1, Lit("qualifications")>>),
        Heading(<<Lit("it"), Alt(<<Lit("'s"), Cat(<<WS1, Lit("is")>>)>>), WS1,
                  Lit("a"), WS1, Lit("plus"), WS1, Lit("if")>>)>>],
    [type |-> "benefits", patterns |-> <<
        Heading(<<Alt(<<Lit("benefits"), Lit("perks"),
                        Cat(<<Lit("what"), WS1, Lit("we"), WS1, Lit("offer")>>)>>)>>),
        Heading(<<Lit("compensation"), WS1, Alt(<<Lit("and"), Lit("&")>>), WS1,
                  Lit("benefits")>>),
        Heading(<<Lit("why"), WS1,
                  Alt(<<Cat(<<Lit("join"), WS1, Lit("us")>>),
                        Cat(<<Lit("work"), WS1,
                              Alt(<<Lit("here"),
                                    Cat(<<Lit("with"), WS1, Lit("us")>>)>>)>>)>>)>>)>>],
    [type |-> "about_company", patterns |-> <<
        Heading(<<Lit("about"), WS1,
                  Alt(<<Lit("us"), Cat(<<Lit("the"), WS1, Lit("company")>>),
                        Dot(1, 30)>>)>>),
        Heading(<<Lit("who"), WS1, Lit("we"), WS1, Lit("are")>>),
        Heading(<<Lit("company"), WS1,
                  Alt(<<Lit("overview"), Lit("description")>>)>>)>>]
>>

SectionTypes == {section_patterns[i].type : i \in 1..Len(section_patterns)}

\* the matches of one pattern, as section_positions entries
PositionsOf(type, pattern, t) ==
    LET ms == FindIter(pattern, t, 0)
    IN  [j \in 1..Len(ms) |->
            [type |-> type, start |-> ms[j].e, header_start |-> ms[j].s,
             header |-> Strip(Slice(t, ms[j].s, ms[j].e))]]

RECURSIVE PositionsOfType(_, _, _, _)
PositionsOfType(type, patterns, i, t) ==
    IF i > Len(patterns) THEN <<>>
    ELSE PositionsOf(type, patterns[i], t) \o PositionsOfType(type, patterns, i + 1, t)

\* section_positions in discovery order
RECURSIVE Discovered(_, _)
Discovered(i, t) ==
    IF i > Len(section_patterns) THEN <<>>
    ELSE PositionsOfType(section_patterns[i].type, section_patterns[i].patterns, 1, t)
         \o Discovered(i + 1, t)

\* a mutation of InsertByStart: an entry goes before the entries of equal start
RECURSIVE InsertBeforeEqual(_, _)
InsertBeforeEqual(s, x) ==
    IF s = <<>> THEN <<x>>
    ELSE IF x.start <= Head(s).start THEN <<x>> \o s
    ELSE <<Head(s)>> \o InsertBeforeEqual(Tail(s), x)

\* list.sort(key=lambda x: x["start"]) is stable
RECURSIVE InsertByStart(_, _)
InsertByStart(s, x) ==
    IF s = <<>> THEN <<x>>
    ELSE IF x.start < Head(s).start THEN <<x>> \o s
    ELSE <<Head(s)>> \o InsertByStart(Tail(s), x)

RECURSIVE SortByStart(_)
SortByStart(s) ==
    IF s = <<>> THEN <<>>
    ELSE InsertByStart(SortByStart(SubSeq(s, 1, Len(s) - 1)), s[Len(s)])

\* a mutation of SectionPositions: a text without a heading is one section
SectionPositionsOrWholeText(t) ==
    IF Discovered(1, t) = <<>>
    THEN <<[type |-> "about_company", start |-> 0, header_start |-> 0, header |-> <<>>]>>
    ELSE SortByStart(Discovered(1, t))

\* line 166
SectionPositions(t) == SortByStart(Discovered(1, t))

\* a mutation of EndPos: every section runs to the end of the text
EndPosToEnd(ps, i, t) == Len(t)

\* a mutation of EndPos: a section ends where the next section's content starts
EndPosAtNextStart(ps, i, t) == IF i + 1 <= Len(ps) THEN ps[i + 1].start ELSE Len(t)

\* the end of section i: the header of the next section, or the end of the text
EndPos(ps, i, t) == IF i + 1 <= Len(ps) THEN ps[i + 1].header_start ELSE Len(t)

SectionContent(ps, i, t) == Strip(Slice(t, ps[i].start, EndPos(ps, i, t)))

\* \n|bullet glyphs|\*\s+|en dash \s+|-\s+|\d+\.\s+
SplitPattern ==
    Alt(<<NL, Lit("U+2022"), Lit("U+25CF"), Lit("U+25AA"), Lit("U+25E6"),
          Lit("U+2023"), Lit("U+2043"), Cat(<<Lit("*"), WS1>>),
          Cat(<<Lit("U+2013"), WS1>>), Cat(<<Lit("-"), WS1>>),
          Cat(<<Rep(Digits, 1), Lit("."), WS1>>)>>)

\* re.split(pattern, s): the pieces between the matches
RECURSIVE Pieces(_, _, _, _)
Pieces(s, ms, j, from) ==
    IF j > Len(ms) THEN <<Slice(s, from, Len(s))>>
    ELSE <<Slice(s, from, ms[j].s)>> \o Pieces(s, ms, j + 1, ms[j].e)

Split(pattern, s) == Pieces(s, FindIter(pattern, s, 0), 1, 0)

JunkPhrases == {
    <<"cookie">>, <<"privacy", " ", "policy">>, <<"terms", " ", "of">>,
    <<"copyright">>, <<"all", " ", "rights", " ", "reserved">>,
    <<"sign", " ", "in">>, <<"log", " ", "in">>, <<"apply", " ", "now">>,
    <<"share", " ", "this">>, <<"similar", " ", "jobs">>, <<"back", " ", "to">>,
    <<"openstreetmap">>, <<"maptiler">>, <<"zoom", " ", "the", " ", "map">>,
    <<"two", " ", "fingers">>, <<"oracle", " ", "corporation">>,
    <<"copy", " ", "to", " ", "clipboard">>, <<"legal", " ", "notices">>,
    <<"carousel_paragraph">>, <<"job_description", ".", "share">>,
    <<"get", " ", "future", " ", "jobs">>, <<"join", " ", "our", " ", "talent">>,
    <<"careers", " ", "loaded">>, <<"view", " ", "more", " ", "jobs">>,
    <<"leadership", " ", "&", " ", "governance">>, <<"financial", " ", "results">>,
    <<"regulatory", " ", "information">>, <<"shareholder">>,
    <<"annual", " ", "general", " ", "meeting">>, <<"privacy", " ", "preference">>,
    <<"strictly", " ", "necessary">>, <<"more", " ", "information">>,
    <<"design", " ", "your", " ", "career">>, <<"develop", " ", "your", " ", "skills">>,
    <<"discover", " ", "our", " ", "culture">>, <<"viva", " ", "la", " ", "difference">>,
    <<"working", " ", "with", " ", "cancer">>}

IsJunk(line) == \E junk \in JunkPhrases : Contains(Lower(line), junk)

HasPunct(line) == \E i \in 1..Len(line) : line[i] \in {".", ",", ":"}

MinLineLen == 15
ShortLineLen == 25

\* a mutation of KeepLine: the denylist is not consulted
KeepLineNoDenylist(line) ==
    /\ line # <<>> /\ StrLen(line) > MinLineLen
    /\ ~(StrLen(line) < ShortLineLen /\ ~HasPunct(line))

\* a mutation of KeepLine: punctuation does not rescue a short line
KeepLineNoPunct(line) ==
    /\ line # <<>> /\ StrLen(line) > MinLineLen
    /\ ~IsJunk(line)
    /\ ~(StrLen(line) < ShortLineLen)

\* the filter of lines 191-211 on a cleaned line
KeepLine(line) ==
    /\ line # <<>> /\ StrLen(line) > MinLineLen
    /\ ~IsJunk(line)
    /\ ~(StrLen(line) < ShortLineLen /\ ~HasPunct(line))

\* the cleaned line candidates of section i
Candidates(ps, i, t) ==
    LET lines == Split(SplitPattern, SectionContent(ps, i, t))
    IN  [j \in 1..Len(lines) |-> clean_text(lines[j])]

\* the lines section i appends
Appended(ps, i, t) == SelectSeq(Candidates(ps, i, t), KeepLine)

EmptySections == [type \in SectionTypes |-> <<>>]

\* a mutation of Fill: a later occurrence is put before the earlier ones
RECURSIVE FillPrepending(_, _, _, _)
FillPrepending(acc, ps, i, t) ==
    IF i > Len(ps) THEN acc
    ELSE FillPrepending([acc EXCEPT ![ps[i].type] = Appended(ps, i, t) \o @], ps, i + 1, t)

\* lines 177-211: each position appends its lines to the list of its type
RECURSIVE Fill(_, _, _, _)
Fill(acc, ps, i, t) ==
    IF i > Len(ps) THEN acc
    ELSE Fill([acc EXCEPT ![ps[i].type] = @ \o Appended(ps, i, t)], ps, i + 1, t)

parse_job_text(t) == Fill(EmptySections, SectionPositions(t), 1, t)

\* ------------------------------------------------------------------------
\* extract_basic_info (scraper.py:216-316)
\* ------------------------------------------------------------------------
IsStr(x) == x.t = "str"
IsNum(x) == x.t = "num"
IsList(x) == x.t = "list"
IsDict(x) == x.t = "dict"

\* bool(x)
Truthy(x) ==
    CASE x.t = "null" -> FALSE
      [] x.t = "str" -> x.v # <<>>
      [] x.t = "num" -> x.v # 0
      [] x.t = "list" -> x.v # <<>>
      [] x.t = "dict" -> DOMAIN x.v # {}

\* key in d and d.get(key, default), for a dict d
HasField(d, key) == key \in DOMAIN d.v
GetOr(d, key, default) == IF HasField(d, key) THEN d.v[key] ELSE default
Get(d, key) == GetOr(d, key, None)

EmptyInfo ==
    [title |-> None, company |-> None, location |-> None,
     employment_type |-> None, salary |-> None, work_arrangement |-> None]

\* lines 229-233: json_ld.get raises on anything but a dict
MetaTitle(j) == IF IsDict(j) THEN Get(j, "title") ELSE None
MetaEmploymentType(j) == IF IsDict(j) THEN Get(j, "employmentType") ELSE None

\* lines 235-243
MetaCompany(j) ==
    IF IsDict(j) /\ HasField(j, "hiringOrganization")
    THEN LET org == j.v["hiringOrganization"]
         IN  IF IsDict(org) THEN Get(org, "name")
             ELSE IF IsStr(org) THEN org
             ELSE None
    ELSE None

\* ", ".join(parts)
RECURSIVE JoinComma(_)
JoinComma(parts) ==
    IF Len(parts) = 1 THEN parts[1].v
    ELSE parts[1].v \o <<",", " ">> \o JoinComma(Tail(parts))

\* a mutation of AddressParts: a part given as an object is passed over
RECURSIVE AddressPartsStringsOnly(_, _)
AddressPartsStringsOnly(addr, keys) ==
    IF keys = <<>> THEN <<>>
    ELSE (IF IsStr(Get(addr, Head(keys))) THEN <<Get(addr, Head(keys))>> ELSE <<>>)
         \o AddressPartsStringsOnly(addr, Tail(keys))

\* lines 254-260: the parts of an address
RECURSIVE AddressParts(_, _)
AddressParts(addr, keys) ==
    IF keys = <<>> THEN <<>>
    ELSE LET val == Get(addr, Head(keys))
         IN  (IF IsStr(val) THEN <<val>>
              ELSE IF IsDict(val) /\ HasField(val, "name") THEN <<val.v["name"]>>
              ELSE <<>>)
             \o AddressParts(addr, Tail(keys))

\* lines 245-265; str.join raises on a part that is no string, and the
\* handler leaves the location None
MetaLocation(j) ==
    IF IsDict(j) /\ HasField(j, "jobLocation")
    THEN LET loc0 == j.v["jobLocation"]
             loc == IF IsList(loc0) /\ Len(loc0.v) > 0 THEN loc0.v[1] ELSE loc0
         IN  IF IsDict(loc) /\ HasField(loc, "address")
             THEN LET addr == loc.v["address"]
                  IN  IF IsDict(addr)
                      THEN LET parts == AddressParts(addr,
                                   <<"addressLocality", "addressRegion", "addressCountry">>)
                           IN  IF parts = <<>> THEN None
                               ELSE IF \A i \in 1..Len(parts) : IsStr(parts[i])
                               THEN JStr(JoinComma(parts))
                               ELSE None
                      ELSE IF IsStr(addr) THEN addr
                      ELSE None
             ELSE None
    ELSE None

\* the digits of 0 <= k < 1000, padded to three
Pad3(k) ==
    IF k < 10 THEN "00" \o ToString(k)
    ELSE IF k < 100 THEN "0" \o ToString(k)
    ELSE ToString(k)

\* format(n, ","): the digits of n in groups of three
RECURSIVE Grouped(_)
Grouped(n) ==
    IF n < 0 THEN <<"-">> \o Grouped(-n)
    ELSE IF n < 1000 THEN <<ToString(n)>>
    ELSE Grouped(n \div 1000) \o <<",", Pad3(n % 1000)>>

\* line 277
FormatSalary(min_val, max_val, unit) ==
    <<"$">> \o Grouped(min_val.v) \o <<" ", "-", " ", "$">> \o Grouped(max_val.v)
        \o <<" ", "per", " ">> \o Lower(unit.v)

\* a mutation of MetaSalary: the range is formatted whatever its bounds
MetaSalaryNoZeroCheck(j) ==
    IF IsDict(j) /\ HasField(j, "baseSalary")
    THEN LET salary == j.v["baseSalary"]
         IN  IF IsDict(salary) /\ HasField(salary, "value") /\ IsDict(salary.v["value"])
             THEN LET val == salary.v["value"]
                      min_val == GetOr(val, "minValue", JNum(0))
                      max_val == GetOr(val, "maxValue", JNum(0))
                      unit == GetOr(val, "unitText", JStr(<<"YEAR">>))
                  IN  IF IsNum(min_val) /\ IsNum(max_val) /\ IsStr(unit)
                      THEN JStr(FormatSalary(min_val, max_val, unit))
                      ELSE None
             ELSE None
    ELSE None

\* lines 267-279; the format raises on a bound that is no number and on a
\* unit that is no string, and the handler leaves the salary None
MetaSalary(j) ==
    IF IsDict(j) /\ HasField(j, "baseSalary")
    THEN LET salary == j.v["baseSalary"]
         IN  IF IsDict(salary) /\ HasField(salary, "value") /\ IsDict(salary.v["value"])
             THEN LET val == salary.v["value"]
                      min_val == GetOr(val, "minValue", JNum(0))
                      max_val == GetOr(val, "maxValue", JNum(0))
                      unit == GetOr(val, "unitText", JStr(<<"YEAR">>))
                  IN  IF (Truthy(min_val) \/ Truthy(max_val))
                         /\ IsNum(min_val) /\ IsNum(max_val) /\ IsStr(unit)
                      THEN JStr(FormatSalary(min_val, max_val, unit))
                      ELSE None
             ELSE None
    ELSE None

\* (\d+)\s*days?\s*(?:per\s*week|/\s*week)?\s*(?:in\s*)?(?:office|on-?site)
HybridPattern ==
    Cat(<<Grp(1, Rep(Digits, 1)), WS0, Alt(<<Lit("days"), Lit("day")>>), WS0,
          Opt(Alt(<<Cat(<<Lit("per"), WS0, Lit("week")>>),
                    Cat(<<Lit("/"), WS0, Lit("week")>>)>>)),
          WS0, Opt(Cat(<<Lit("in"), WS0>>)),
          Alt(<<Lit("office"), Lit("onsite"),
                Cat(<<Lit("on"), Opt(Lit("-")), Lit("site")>>)>>)>>)

Group(t, m, i) == Slice(t, m.g[i][1], m.g[i][2])
HasGroup(m, i) == m.g[i] # <<-1, -1>>

\* a mutation of WorkArrangement: "remote" decides before "hybrid" is looked for
WorkArrangementRemoteFirst(t) ==
    LET text_lower == Lower(t)
        has(w) == Contains(text_lower, w)
    IN  IF has(<<"remote">>) THEN JStr(<<"Remote">>)
        ELSE IF has(<<"hybrid">>)
        THEN LET hybrid_match == SearchFrom(HybridPattern, t, 0)
             IN  IF hybrid_match # NoMatch
                 THEN JStr(<<"Hybrid", " ", "(">> \o Group(t, hybrid_match, 1)
                           \o <<" ", "days", "/", "week", " ", "in", " ", "office", ")">>)
                 ELSE JStr(<<"Hybrid">>)
        ELSE IF has(<<"on", "-", "site">>) \/ has(<<"onsite">>) \/ has(<<"in", "-", "office">>)
        THEN JStr(<<"On", "-", "site">>)
        ELSE None

\* lines 286-295
WorkArrangement(t) ==
    LET text_lower == Lower(t)
        has(w) == Contains(text_lower, w)
    IN  IF has(<<"remote">>) /\ ~has(<<"hybrid">>) THEN JStr(<<"Remote">>)
        ELSE IF has(<<"hybrid">>)
        THEN LET hybrid_match == SearchFrom(HybridPattern, t, 0)
             IN  IF hybrid_match # NoMatch
                 THEN JStr(<<"Hybrid", " ", "(">> \o Group(t, hybrid_match, 1)
                           \o <<" ", "days", "/", "week", " ", "in", " ", "office", ")">>)
                 ELSE JStr(<<"Hybrid">>)
        ELSE IF has(<<"on", "-", "site">>) \/ has(<<"onsite">>)
                \/ has(<<"in", "-", "office">>)
        THEN JStr(<<"On", "-", "site">>)
        ELSE None

Amount == Grp(1, Rep(Digits \cup {","}, 1))
UpperAmount ==
    Opt(Cat(<<One({"-", "U+2013"}), WS0, Opt(Lit("$")), WS0,
              Grp(2, Rep(Digits \cup {","}, 1))>>))

salary_patterns == <<
    \* \$\s*([\d,]+)\s*(?:[-–]\s*\$?\s*([\d,]+))?\s*(?:per\s+|/\s*)?(year|...)
    Cat(<<Lit("$"), WS0, Amount, WS0, UpperAmount, WS0,
          Opt(Alt(<<Cat(<<Lit("per"), WS1>>), Cat(<<Lit("/"), WS0>>)>>)),
          Grp(3, Alt(<<Lit("year"), Lit("yr"), Lit("annually"), Lit("hour"),
                       Lit("hr"), Lit("hourly"), Lit("month"), Lit("monthly")>>))>>),
    \* (?:salary|compensation|pay)[:\s]*\$\s*([\d,]+)\s*(?:[-–]\s*\$?\s*([\d,]+))?
    Cat(<<Alt(<<Lit("salary"), Lit("compensation"), Lit("pay")>>),
          Rep(Space \cup {":"}, 0), Lit("$"), WS0, Amount, WS0, UpperAmount>>)
>>

\* lines 306-311
SalaryOfMatch(t, m) ==
    (IF HasGroup(m, 2)
     THEN <<"$">> \o Group(t, m, 1) \o <<" ", "-", " ", "$">> \o Group(t, m, 2)
     ELSE <<"$">> \o Group(t, m, 1))
    \o (IF HasGroup(m, 3) THEN <<" ", "per", " ">> \o Group(t, m, 3) ELSE <<>>)

\* a mutation of TextSalary: the last pattern that matches decides
RECURSIVE TextSalaryLastPattern(_, _)
TextSalaryLastPattern(t, i) ==
    IF i > Len(salary_patterns) THEN None
    ELSE LET m == SearchFrom(salary_patterns[i], t, 0)
             later == TextSalaryLastPattern(t, i + 1)
         IN  IF later # None THEN later
             ELSE IF m # NoMatch THEN JStr(SalaryOfMatch(t, m)) ELSE None

\* lines 303-312: the first pattern that matches decides
RECURSIVE TextSalary(_, _)
TextSalary(t, i) ==
    IF i > Len(salary_patterns) THEN None
    ELSE LET m == SearchFrom(salary_patterns[i], t, 0)
         IN  IF m # NoMatch THEN JStr(SalaryOfMatch(t, m)) ELSE TextSalary(t, i + 1)

\* a mutation of SalaryFallback: the text search runs whatever the metadata gave
SalaryFallbackAlways(salary, t) ==
    IF TextSalary(t, 1) # None THEN TextSalary(t, 1) ELSE salary

\* line 298: the text is searched only when the metadata gave no salary
SalaryFallback(salary, t) ==
    IF ~Truthy(salary) /\ TextSalary(t, 1) # None THEN TextSalary(t, 1) ELSE salary

\* the try blocks of extract_basic_info, in the order of the code: lines
\* 229-233, 235-243, 245-265, 267-279 and 282-313
InfoBlocks == <<"title", "company", "location", "salary", "text">>

\* key in json_ld raises on a number; json_ld[key] raises on a string or a
\* list that holds the key
KeyRaises(j, key) ==
    \/ IsNum(j)
    \/ IsStr(j) /\ Contains(j.v, <<key>>)
    \/ IsList(j) /\ \E i \in 1..Len(j.v) : j.v[i] = JStr(<<key>>)

\* the block raises on metadata j: get() on what is no dict, a lookup that
\* raises, join() on a part that is no string, a format of a bound that is no
\* number or lower() of a unit that is no string; the text block raises on
\* no string
BlockRaises(block, j) ==
    /\ Truthy(j)
    /\ CASE block = "title" -> ~IsDict(j)
         [] block = "company" -> ~IsDict(j) /\ KeyRaises(j, "hiringOrganization")
         [] block = "location" ->
               IF ~IsDict(j) THEN KeyRaises(j, "jobLocation")
               ELSE /\ HasField(j, "jobLocation")
                    /\ LET loc0 == j.v["jobLocation"]
                           loc == IF IsList(loc0) /\ Len(loc0.v) > 0 THEN loc0.v[1] ELSE loc0
                       IN  /\ IsDict(loc) /\ HasField(loc, "address")
                           /\ IsDict(loc.v["address"])
                           /\ \E i \in 1..Len(AddressParts(loc.v["address"],
                                  <<"addressLocality", "addressRegion", "addressCountry">>)) :
                                 ~IsStr(AddressParts(loc.v["address"],
                                  <<"addressLocality", "addressRegion", "addressCountry">>)[i])
         [] block = "salary" ->
               IF ~IsDict(j) THEN KeyRaises(j, "baseSalary")
               ELSE /\ HasField(j, "baseSalary")
                    /\ IsDict(j.v["baseSalary"]) /\ HasField(j.v["baseSalary"], "value")
                    /\ IsDict(j.v["baseSalary"].v["value"])
                    /\ LET val == j.v["baseSalary"].v["value"]
                           min_val == GetOr(val, "minValue", JNum(0))
                           max_val == GetOr(val, "maxValue", JNum(0))
                           unit == GetOr(val, "unitText", JStr(<<"YEAR">>))
                       IN  /\ Truthy(min_val) \/ Truthy(max_val)
                           /\ ~(IsNum(min_val) /\ IsNum(max_val) /\ IsStr(unit))
         [] block = "text" -> FALSE

\* a mutation of Reached: one try block around the whole function, so that
\* a block that raises skips the blocks after it
ReachedUntilFault(block, j) ==
    \A i, k \in 1..Len(InfoBlocks) :
        (InfoBlocks[k] = block /\ i < k) => ~BlockRaises(InfoBlocks[i], j)

\* every block has a try of its own and runs whatever the blocks before it
\* came to
Reached(block, j) == block \in {InfoBlocks[i] : i \in 1..Len(InfoBlocks)}

\* the except clauses of lines 232, 242, 264, 278 and 312 take every Exception
Handled(block) == TRUE

\* an exception leaves extract_basic_info
BasicInfoRaises(t, j) ==
    \E i \in 1..Len(InfoBlocks) :
        Reached(InfoBlocks[i], j) /\ BlockRaises(InfoBlocks[i], j) /\ ~Handled(InfoBlocks[i])

extract_basic_info(t, j) ==
    LET meta == Truthy(j)
        from(block, value) == IF meta /\ Reached(block, j) THEN value ELSE None
        salary == from("salary", MetaSalary(j))
    IN  [title |-> from("title", MetaTitle(j)),
         company |-> from("company", MetaCompany(j)),
         location |-> from("location", MetaLocation(j)),
         employment_type |-> from("title", MetaEmploymentType(j)),
         salary |-> IF Reached("text", j) THEN SalaryFallback(salary, t) ELSE salary,
         work_arrangement |-> IF Reached("text", j) THEN WorkArrangement(t) ELSE None]

\* ------------------------------------------------------------------------
\* fetch_page_text (scraper.py:6-67)
\* ------------------------------------------------------------------------
\* the ld+json script of a page: none, one whose text is no JSON, or one
\* that holds a JSON value
NoScript == [t |-> "absent"]
BadScript == [t |-> "invalid"]

NoPage == [visible_text |-> <<>>, script |-> NoScript]

\* lines 56-63: no script, or a script json.loads raises on, leaves {}
JsonLdOf(script) ==
    IF script.t \in {"absent", "invalid"} THEN JDict(<<>>) ELSE script

\* what a call of fetch_page_text can come to: the launch (line 9), the
\* navigation (line 14), the evaluation (line 19) or the close (line 65)
\* raises, or the call returns
FetchOutcomes ==
    {"ok", "launch_failed", "navigation_timeout", "evaluate_failed", "close_failed"}

fetch_page_text(pg, outcome) ==
    IF outcome = "ok"
    THEN [ok |-> TRUE, text |-> pg.visible_text, json_ld |-> JsonLdOf(pg.script)]
    ELSE [ok |-> FALSE, text |-> <<>>, json_ld |-> None]

\* ------------------------------------------------------------------------
\* scrape_job_posting (scraper.py:319-377)
\* ------------------------------------------------------------------------
JobFields ==
    {"url", "title", "company", "location", "employment_type", "salary",
     "work_arrangement", "responsibilities", "requirements",
     "preferred_qualifications", "benefits", "about_company",
     "skills_mentioned", "raw_text"}

\* lines 323-338
DefaultJob(u) ==
    [url |-> u, title |-> None, company |-> None, location |-> None,
     employment_type |-> None, salary |-> None, work_arrangement |-> None,
     responsibilities |-> <<>>, requirements |-> <<>>,
     preferred_qualifications |-> <<>>, benefits |-> <<>>,
     about_company |-> <<>>, skills_mentioned |-> <<>>, raw_text |-> <<>>]

Stages == {"basic_info", "sections", "skills"}
StageOrder == <<"basic_info", "sections", "skills">>

\* a mutation of Caught: the handler takes the navigation timeout only
CaughtTimeoutOnly(outcome) == outcome = "navigation_timeout"

\* line 374: the handler takes whatever the fetch raises
Caught(outcome) == outcome \in FetchOutcomes

\* a mutation of Runs: one try block around the three stages, so that a
\* stage that raises skips the stages after it
RunsUntilFailure(stage, failing) ==
    \A i, k \in 1..Len(StageOrder) :
        (StageOrder[k] = stage /\ i < k) => StageOrder[i] \notin failing

\* lines 346, 358, 368: each stage has a try block of its own and runs
\* whatever became of the stages before it
Runs(stage, failing) == stage \in Stages

Completes(stage, failing) == Runs(stage, failing) /\ stage \notin failing

\* lines 343-372: the record after a fetch that returned t, the stages of
\* failing raising and the others returning basic_info, secs and found
Aggregate(u, t, basic_info, secs, found, failing) ==
    LET d0 == [DefaultJob(u) EXCEPT !.raw_text = t]
        d1 == IF Completes("basic_info", failing)
              THEN [d0 EXCEPT !.title = basic_info.title,
                              !.company = basic_info.company,
                              !.location = basic_info.location,
                              !.employment_type = basic_info.employment_type,
                              !.salary = basic_info.salary,
                              !.work_arrangement = basic_info.work_arrangement]
              ELSE d0
        d2 == IF Completes("sections", failing)
              THEN [d1 EXCEPT !.responsibilities = secs.responsibilities,
                              !.requirements = secs.requirements,
                              !.preferred_qualifications = secs.preferred,
                              !.benefits = secs.benefits,
                              !.about_company = secs.about_company]
              ELSE d1
    IN  IF Completes("skills", failing)
        THEN [d2 EXCEPT !.skills_mentioned = found]
        ELSE d2

\* ------------------------------------------------------------------------
\* format_job_for_prompt (main.py:491-543)
\* ------------------------------------------------------------------------
\* str(x) of a title, company, location or work arrangement; the pages of
\* the model give these fields strings and numbers only
PyStr(x) ==
    CASE IsStr(x) -> x.v
      [] IsNum(x) -> <<ToString(x.v)>>

\* sep.join(items)
RECURSIVE Join(_, _)
Join(sep, items) ==
    IF items = <<>> THEN <<>>
    ELSE IF Len(items) = 1 THEN items[1]
    ELSE items[1] \o sep \o Join(sep, Tail(items))

\* s[:n], n counted in characters; a lexeme the cut runs through is left
\* out whole
RECURSIVE Truncate(_, _)
Truncate(s, n) ==
    IF s = <<>> \/ LexLen[Head(s)] > n THEN <<>>
    ELSE <<Head(s)>> \o Truncate(Tail(s), n - LexLen[Head(s)])

RawTextCap == 8000

Bullets(items) == [i \in 1..Len(items) |-> <<"U+2022", " ">> \o items[i]]

\* lines 503-510
ScalarPart(job, field, label) ==
    IF Truthy(job[field]) THEN <<label \o <<":", " ">> \o PyStr(job[field])>> ELSE <<>>

\* lines 515-528
ListPart(items, label) ==
    IF items # <<>> THEN <<<<"\n">> \o label \o <<":">>>> \o Bullets(items) ELSE <<>>

\* a mutation of HasContent: the skills count as structured content too
HasContentOrSkills(job) ==
    \/ job.responsibilities # <<>> \/ job.requirements # <<>>
    \/ job.about_company # <<>> \/ job.skills_mentioned # <<>>

\* lines 534-538
HasContent(job) ==
    \/ job.responsibilities # <<>> \/ job.requirements # <<>>
    \/ job.about_company # <<>>

format_job_for_prompt(job) ==
    LET parts ==
            ScalarPart(job, "title", <<"Job", " ", "Title">>)
            \o ScalarPart(job, "company", <<"Company">>)
            \o ScalarPart(job, "location", <<"Location">>)
            \o ScalarPart(job, "work_arrangement", <<"Work", " ", "Arrangement">>)
            \o (IF job.about_company # <<>>
                THEN << <<"\n", "About", " ", "the", " ", "Company", ":", "\n">>
                        \o Join(<<"\n">>, SubSeq(job.about_company, 1,
                               IF Len(job.about_company) < 3
                               THEN Len(job.about_company) ELSE 3)) >>
                ELSE <<>>)
            \o ListPart(job.responsibilities, <<"Responsibilities">>)
            \o ListPart(job.requirements, <<"Requirements">>)
            \o ListPart(job.preferred_qualifications,
                        <<"Preferred", " ", "Qualifications">>)
            \o (IF job.skills_mentioned # <<>>
                THEN << <<"\n", "Skills", " ", "Mentioned", ":", " ">>
                        \o Join(<<",", " ">>, job.skills_mentioned) >>
                ELSE <<>>)
            \o (IF ~HasContent(job) /\ job.raw_text # <<>>
                THEN << <<"\n", "Full", " ", "Job", " ", "Posting", " ", "Text", ":", "\n">>
                        \o Truncate(job.raw_text, RawTextCap) >>
                ELSE <<>>)
    IN  Join(<<"\n">>, parts)

\* ------------------------------------------------------------------------
\* Inputs
\* ------------------------------------------------------------------------
\* a text is the lexeme sequence of a string: a word is one lexeme, so no
\* two word lexemes are adjacent
WellTokenized(t) ==
    \A i \in 1..(Len(t) - 1) : ~(t[i] \in WordEnd /\ t[i + 1] \in WordStart)

RECURSIVE TextsOver(_, _)
TextsOver(vocab, n) ==
    IF n = 0 THEN {<<>>}
    ELSE LET shorter == TextsOver(vocab, n - 1)
         IN  shorter \cup
             {Append(t, x) : <<t, x>> \in
                 {tx \in shorter \X vocab :
                     Len(tx[1]) = n - 1 /\ WellTokenized(Append(tx[1], tx[2]))}}

MaxSkillText == 5
SkillVocab == {" ", ",", "Go", "GO", "go", "AI", "ai", "x"}
SkillTexts == TextsOver(SkillVocab, MaxSkillText)

\* the variables a specification does not use keep their initial values
NoPool == [queue |-> <<>>, running |-> {}]

Untouched(used) ==
    /\ IF "url" \in used THEN TRUE ELSE url = ""
    /\ IF "page" \in used THEN TRUE ELSE page = NoPage
    /\ IF "text" \in used THEN TRUE ELSE text = <<>>
    /\ IF "json_ld" \in used THEN TRUE ELSE json_ld = None
    /\ sections = EmptySections
    /\ skills = <<>>
    /\ info = EmptyInfo
    /\ prompt = <<>>
    /\ job_data = None
    /\ failed = {}
    /\ IF "request" \in used THEN TRUE ELSE request = NoRequest
    /\ status = 0
    /\ calls = <<>>
    /\ raised = ""
    /\ IF "reply" \in used THEN TRUE ELSE reply = NoReply
    /\ IF "scrapes" \in used THEN TRUE ELSE scrapes = <<>> /\ records = <<>>
    /\ IF "pool" \in used THEN TRUE ELSE tasks = <<>> /\ pool = NoPool
    /\ IF "letter" \in used THEN TRUE ELSE letter = None
    /\ response = None
    /\ IF "injection" \in used THEN TRUE ELSE injection = None

\* ------------------------------------------------------------------------
\* SpecSkills: extract_skills applied to every text over SkillVocab
\* ------------------------------------------------------------------------
InitSkills ==
    /\ text \in SkillTexts
    /\ pc = "call"
    /\ Untouched({"text"})

ExtractSkills ==
    /\ pc = "call"
    /\ skills' = extract_skills(text)
    /\ pc' = "return"
    /\ UNCHANGED <<url, page, text, json_ld, sections, info, prompt, job_data, failed>>
    /\ UNCHANGED handler
    /\ UNCHANGED <<concurrent, letters>>

NextSkills == ExtractSkills

SpecSkills == InitSkills /\ [][NextSkills]_vars

\* an occurrence of the skill with lowercased form key at offset p of t: the
\* characters there are key up to case, between word boundaries
OccursAt(t, p, key) ==
    /\ p + Len(key) <= Len(t)
    /\ Lower(Slice(t, p, p + Len(key))) = key
    /\ IsWordBefore(t, p) # IsWordAfter(t, p)
    /\ IsWordBefore(t, p + Len(key)) # IsWordAfter(t, p + Len(key))

FirstVariant(t, key) ==
    LET ps == {p \in 0..Len(t) : OccursAt(t, p, key)}
        p0 == CHOOSE p \in ps : \A q \in ps : p <= q
    IN  IF ps = {} THEN <<>> ELSE Slice(t, p0, p0 + Len(key))

Reverse(s) == [i \in 1..Len(s) |-> s[Len(s) + 1 - i]]

\* C3: the output of extract_skills holds no two entries that are equal when
\* lowercased, and its entries are in non-decreasing order of their
\* lowercased forms.
C3_SkillsDedupedSorted ==
    pc = "return" =>
        \A i, j \in 1..Len(skills) :
            i < j => /\ Lower(skills[i]) # Lower(skills[j])
                     /\ ~StrLess(Lower(skills[j]), Lower(skills[i]))

\* C3 witness: a text that names one skill in two casings after a skill that
\* sorts later, and the output holds both skills.
C3_Witness ==
    /\ pc = "return"
    /\ Len(skills) = 2
    /\ \E i, j, k \in 1..Len(text) :
          /\ i < j /\ j < k
          /\ LexLower[text[i]] = "go"
          /\ LexLower[text[j]] = "ai" /\ LexLower[text[k]] = "ai"
          /\ text[j] # text[k]

RECURSIVE JoinLines(_)
JoinLines(ls) ==
    IF ls = <<>> THEN <<>>
    ELSE IF Len(ls) = 1 THEN ls[1]
    ELSE ls[1] \o <<"\n">> \o JoinLines(Tail(ls))

RECURSIVE LinesOver(_, _)
LinesOver(kinds, n) ==
    IF n = 0 THEN {<<>>}
    ELSE LET shorter == LinesOver(kinds, n - 1)
         IN  shorter \cup
             {Append(ls, l) : <<ls, l>> \in {x \in shorter \X kinds : Len(x[1]) = n - 1}}

MaxParseLines == 4
ParseLines == {
    <<>>,
    <<"What", " ", "you", "'ll", " ", "do">>,
    <<"Requirements", ":">>,
    <<"Preferred", " ", "Qualifications">>,
    <<"Build scalable backend services for our platform", ".">>,
    <<"Strong knowledge of", " ", "Go", ".">>,
    <<"Build scalable backend services for our platform", " ", "-", " ",
      "Strong knowledge of", " ", "Go", ".">>,
    <<"Remote">>}
ParseTexts == {JoinLines(ls) : ls \in LinesOver(ParseLines, MaxParseLines)}

InitParse ==
    /\ text \in ParseTexts
    /\ pc = "call"
    /\ Untouched({"text"})

ParseJobText ==
    /\ pc = "call"
    /\ sections' = parse_job_text(text)
    /\ pc' = "return"
    /\ UNCHANGED <<url, page, text, json_ld, skills, info, prompt, job_data, failed>>
    /\ UNCHANGED handler
    /\ UNCHANGED <<concurrent, letters>>

NextParse == ParseJobText

SpecParse == InitParse /\ [][NextParse]_vars

\* the lines of a text
LinesOf(t) == Split(NL, t)

\* the categories whose heading patterns recognize the line
HeadingTypes(line) ==
    {section_patterns[i].type : i \in
        {i \in 1..Len(section_patterns) :
            \E j \in 1..Len(section_patterns[i].patterns) :
                FindIter(section_patterns[i].patterns[j], line, 0) # <<>>}}

IsBlank(line) == Strip(line) = <<>>

\* the heading line that governs line i: the last heading line before it
Governor(ls, i) ==
    LET hs == {h \in 1..(i - 1) : HeadingTypes(ls[h]) # {}}
    IN  IF hs = {} THEN 0 ELSE CHOOSE h \in hs : \A g \in hs : g <= h

\* a text made of heading lines, each of one category, each followed by
\* content lines that pass the line filter; blank lines may separate them
HeadedText(t) ==
    LET ls == LinesOf(t)
    IN  /\ HeadingTypes(ls[1]) # {}
        /\ \A i \in 1..Len(ls) :
              \/ /\ Cardinality(HeadingTypes(ls[i])) = 1
                 /\ i < Len(ls) /\ HeadingTypes(ls[i + 1]) = {} /\ ~IsBlank(ls[i + 1])
              \/ IsBlank(ls[i])
              \/ HeadingTypes(ls[i]) = {} /\ KeepLine(clean_text(ls[i]))

\* the content lines under the headings of a category, in document order
RECURSIVE ContentUnder(_, _, _)
ContentUnder(ls, type, i) ==
    IF i > Len(ls) THEN <<>>
    ELSE (IF /\ HeadingTypes(ls[i]) = {} /\ ~IsBlank(ls[i])
             /\ Governor(ls, i) # 0 /\ type \in HeadingTypes(ls[Governor(ls, i)])
          THEN <<clean_text(ls[i])>> ELSE <<>>)
         \o ContentUnder(ls, type, i + 1)

\* the line holds none of the separators the content is split on
OneItem(line) == FindIter(SplitPattern, line, 0) = <<>>

\* C8: for a text made of heading lines, each of exactly one category, each
\* followed by content lines that pass the line filter, parse_job_text
\* returns for each category exactly the content lines under that category's
\* headings, in document order, and nothing else.
C8_HeadedSections ==
    (pc = "return" /\ HeadedText(text)) =>
        \A type \in SectionTypes :
            sections[type] = ContentUnder(LinesOf(text), type, 1)

\* C8 restricted to content lines that hold no item separator
C8_HeadedSectionsOneItem ==
    (/\ pc = "return" /\ HeadedText(text)
     /\ \A i \in 1..Len(LinesOf(text)) : OneItem(LinesOf(text)[i])) =>
        \A type \in SectionTypes :
            sections[type] = ContentUnder(LinesOf(text), type, 1)


\* ------------------------------------------------------------------------
\* SpecFilter: parse_job_text applied to one heading and one line under it
\* ------------------------------------------------------------------------
MaxFilterLen == 4
FilterVocab ==
    {" ", ".", "Go", "Remote", "Strong knowledge of", "Design and own the checkout",
     "API"}
FilterLines ==
    TextsOver(FilterVocab, MaxFilterLen)
    \cup {<<"Design and own the checkout", " ", "API", " ", "end-to-end", ".">>,
          <<"Apply", " ", "now", " ", "to join the engineering team", ".">>,
          <<"Apply", " ", "now", ".">>,
          <<"Remote", ",", " ", "Go", ".">>}
FilterTexts == {<<"Responsibilities", "\n">> \o line : line \in FilterLines}

InitFilter ==
    /\ text \in FilterTexts
    /\ pc = "call"
    /\ Untouched({"text"})

FilterLine ==
    /\ pc = "call"
    /\ sections' = parse_job_text(text)
    /\ pc' = "return"
    /\ UNCHANGED <<url, page, text, json_ld, skills, info, prompt, job_data, failed>>
    /\ UNCHANGED handler
    /\ UNCHANGED <<concurrent, letters>>

NextFilter == FilterLine

SpecFilter == InitFilter /\ [][NextFilter]_vars

\* the filter as the claim words it
ClaimedKeep(line) ==
    /\ line # <<>>
    /\ ~IsJunk(line)
    /\ (StrLen(line) >= 25 \/ HasPunct(line))

\* the filter as the claim words it, with the floor of 15 characters
ClaimedKeepOverFloor(line) == ClaimedKeep(line) /\ StrLen(line) > 15

RemoteText == <<"Responsibilities", "\n", "Remote">>
CheckoutLine == <<"Design and own the checkout", " ", "API", " ", "end-to-end", ".">>
CheckoutText == <<"Responsibilities", "\n">> \o CheckoutLine

\* C9 as stated: a whitespace-normalized candidate of a section span is
\* appended if and only if it is non-empty, holds no denylisted phrase and
\* either has at least 25 characters or holds one of '.', ',', ':'; 'Remote'
\* is dropped and the checkout line is kept.
C9_LineFilter ==
    pc = "return" =>
        LET ps == SectionPositions(text)
        IN  /\ Len(ps) = 1
            /\ sections[ps[1].type] = SelectSeq(Candidates(ps, 1, text), ClaimedKeep)
            /\ text = RemoteText => sections.responsibilities = <<>>
            /\ text = CheckoutText => sections.responsibilities = <<CheckoutLine>>

\* C9 amended: a candidate is appended if and only if it has more than 15
\* characters, holds no denylisted phrase and either has at least 25
\* characters or holds one of '.', ',', ':'; 'Remote' is dropped and the
\* checkout line is kept.
C9_LineFilterOverFloor ==
    pc = "return" =>
        LET ps == SectionPositions(text)
        IN  /\ Len(ps) = 1
            /\ sections[ps[1].type]
                   = SelectSeq(Candidates(ps, 1, text), ClaimedKeepOverFloor)
            /\ text = RemoteText => sections.responsibilities = <<>>
            /\ text = CheckoutText => sections.responsibilities = <<CheckoutLine>>

\* C9 witness: a candidate of under 25 characters that holds a '.' was
\* appended.
C9_Witness ==
    /\ pc = "return"
    /\ Len(sections.responsibilities) = 1
    /\ StrLen(sections.responsibilities[1]) < 25
    /\ HasPunct(sections.responsibilities[1])


\* ------------------------------------------------------------------------
\* SpecBasic: extract_basic_info applied to texts and metadata
\* ------------------------------------------------------------------------
\* the dict of a set of <<key, value>> pairs
DictOf(pairs) ==
    JDict([k \in {p[1] : p \in pairs} |-> (CHOOSE p \in pairs : p[1] = k)[2]])

\* a field that may be left out
Field(k, x) == IF x = NoScript THEN {} ELSE {<<k, x>>}

MinValues == {NoScript, None, JNum(0), JNum(50000), JStr(<<"50", "000">>)}
MaxValues == {NoScript, JNum(0), JNum(70000)}
UnitTexts == {NoScript, None, JStr(<<"HOUR">>)}

SalaryRanges ==
    {DictOf(Field("minValue", a) \cup Field("maxValue", b) \cup Field("unitText", u)) :
        a \in MinValues, b \in MaxValues, u \in UnitTexts}

BasicMeta ==
    {DictOf({<<"title", JStr(<<"Engineer">>)>>,
             <<"baseSalary", DictOf({<<"value", v>>})>>}) : v \in SalaryRanges}
    \cup {JDict(<<>>), None, JList(<<>>),
          DictOf({<<"baseSalary", JStr(<<"$", "90", ",", "000">>)>>}),
          DictOf({<<"baseSalary", DictOf({<<"value", JNum(50000)>>})>>}),
          JList(<<DictOf({<<"baseSalary", DictOf({<<"value",
              DictOf({<<"minValue", JNum(50000)>>, <<"maxValue", JNum(70000)>>})>>})>>})>>)}

BasicTexts ==
    {<<>>,
     <<"Engineer", " ", "onsite">>,
     <<"$", "50", ",", "000", " ", "-", " ", "$", "90", ",", "000", " ", "per", " ", "year">>,
     <<"Salary", ":", " ", "$", "90", ",", "000", "\n", "Remote">>,
     <<"pay", " ", "$", "25", " ", "/", " ", "hour", "\n",
       "Hybrid", " ", "3", " ", "days", " ", "per", " ", "week", " ", "in", " ", "office">>,
     <<"$", "70", ",", "000", " ", "-", " ", "$", "90", ",", "000">>}

InitBasic ==
    /\ text \in BasicTexts
    /\ json_ld \in BasicMeta
    /\ pc = "call"
    /\ Untouched({"text", "json_ld"})

ExtractBasicInfo ==
    /\ pc = "call"
    /\ info' = extract_basic_info(text, json_ld)
    /\ pc' = IF BasicInfoRaises(text, json_ld) THEN "raise" ELSE "return"
    /\ UNCHANGED <<url, page, text, json_ld, sections, skills, prompt, job_data, failed>>
    /\ UNCHANGED handler
    /\ UNCHANGED <<concurrent, letters>>

NextBasic == ExtractBasicInfo

SpecBasic == InitBasic /\ [][NextBasic]_vars

\* the metadata holds a salary range: a baseSalary whose value gives numbers
\* for the bounds it names, not both zero, and a string for the unit if it
\* names one
ValidSalaryRange(j) ==
    /\ IsDict(j) /\ HasField(j, "baseSalary")
    /\ IsDict(j.v["baseSalary"]) /\ HasField(j.v["baseSalary"], "value")
    /\ LET val == j.v["baseSalary"].v["value"]
       IN  /\ IsDict(val)
           /\ IsNum(GetOr(val, "minValue", JNum(0)))
           /\ IsNum(GetOr(val, "maxValue", JNum(0)))
           /\ GetOr(val, "minValue", JNum(0)).v # 0 \/ GetOr(val, "maxValue", JNum(0)).v # 0
           /\ IsStr(GetOr(val, "unitText", JStr(<<"YEAR">>)))

\* C5: for metadata that holds a valid salary range, the salary of
\* extract_basic_info is the value derived from the metadata, whatever the
\* text holds.
C5_MetadataSalaryWins ==
    (pc = "return" /\ ValidSalaryRange(json_ld)) =>
        LET val == json_ld.v["baseSalary"].v["value"]
        IN  info.salary =
                JStr(<<"$">> \o Grouped(GetOr(val, "minValue", JNum(0)).v)
                     \o <<" ", "-", " ", "$">> \o Grouped(GetOr(val, "maxValue", JNum(0)).v)
                     \o <<" ", "per", " ">>
                     \o Lower(GetOr(val, "unitText", JStr(<<"YEAR">>)).v))

\* C5 witness: the metadata holds a valid range and the text holds a dollar
\* amount the text patterns match, which is not the salary returned.
C5_Witness ==
    /\ pc = "return"
    /\ ValidSalaryRange(json_ld)
    /\ TextSalary(text, 1) # None
    /\ TextSalary(text, 1) # info.salary
    /\ IsStr(info.salary)


\* ------------------------------------------------------------------------
\* SpecScrape: generate_cover_letter's use of the scraper (main.py:567-570):
\* scrape_job_posting on a url, then format_job_for_prompt on its record
\* ------------------------------------------------------------------------
Urls == {"https://jobs.example/1", "https://jobs.example/2"}

MaxScrapeLines == 2
ScrapeLines == {
    <<"Requirements">>,
    <<"Strong knowledge of", " ", "Go", ".">>,
    <<"Strong knowledge of", " ", "Requirements", ".">>,
    <<"Remote">>,
    <<"Salary", ":", " ", "$", "90", ",", "000", " ", "per", " ", "year">>}
ScrapeTexts == {JoinLines(ls) : ls \in LinesOver(ScrapeLines, MaxScrapeLines)}

JobPosting ==
    DictOf({<<"title", JStr(<<"Engineer">>)>>,
            <<"employmentType", JStr(<<"FULL_TIME">>)>>,
            <<"hiringOrganization", DictOf({<<"name", JStr(<<"Acme">>)>>})>>,
            <<"jobLocation", JList(<<DictOf({<<"address",
                DictOf({<<"addressLocality", JStr(<<"Berlin">>)>>,
                        <<"addressCountry", JStr(<<"DE">>)>>})>>})>>)>>,
            <<"baseSalary", DictOf({<<"value",
                DictOf({<<"minValue", JNum(50000)>>, <<"maxValue", JNum(70000)>>,
                        <<"unitText", JStr(<<"YEAR">>)>>})>>})>>})

Pages == [visible_text : ScrapeTexts, script : {NoScript, BadScript, JobPosting}]

InitScrape ==
    /\ url \in Urls
    /\ page \in Pages
    /\ pc = "call"
    /\ Untouched({"url", "page"})

\* the fetch raises: lines 374-377, or the exception leaves the function
ScrapeFetchFailed ==
    /\ pc = "call"
    /\ \E outcome \in FetchOutcomes :
          /\ ~fetch_page_text(page, outcome).ok
          /\ failed' = {outcome}
          /\ IF Caught(outcome)
             THEN pc' = "return" /\ job_data' = DefaultJob(url)
             ELSE pc' = "raise" /\ job_data' = None
    /\ UNCHANGED <<url, page, text, json_ld, sections, skills, info, prompt>>
    /\ UNCHANGED handler
    /\ UNCHANGED <<concurrent, letters>>

\* the fetch returns, and the stages of failing raise
ScrapeFetched ==
    /\ pc = "call"
    /\ \E failing \in SUBSET Stages :
          LET fetched == fetch_page_text(page, "ok")
          IN  /\ fetched.ok
              /\ text' = fetched.text
              /\ json_ld' = fetched.json_ld
              /\ info' = IF Completes("basic_info", failing)
                         THEN extract_basic_info(fetched.text, fetched.json_ld)
                         ELSE info
              /\ sections' = IF Completes("sections", failing)
                             THEN parse_job_text(fetched.text) ELSE sections
              /\ skills' = IF Completes("skills", failing)
                           THEN extract_skills(fetched.text) ELSE skills
              /\ failed' = failing
              /\ job_data' = Aggregate(url, fetched.text, info', sections', skills', failing)
    /\ pc' = "return"
    /\ UNCHANGED <<url, page, prompt>>
    /\ UNCHANGED handler
    /\ UNCHANGED <<concurrent, letters>>

\* main.py:570
FormatJobForPrompt ==
    /\ pc = "return"
    /\ prompt' = format_job_for_prompt(job_data)
    /\ pc' = "prompt"
    /\ UNCHANGED <<url, page, text, json_ld, sections, skills, info, job_data, failed>>
    /\ UNCHANGED handler
    /\ UNCHANGED <<concurrent, letters>>

NextScrape == ScrapeFetchFailed \/ ScrapeFetched \/ FormatJobForPrompt

SpecScrape == InitScrape /\ [][NextScrape]_vars

ScalarFields ==
    {"title", "company", "location", "employment_type", "salary", "work_arrangement"}
SectionFields ==
    {"responsibilities", "requirements", "preferred_qualifications", "benefits",
     "about_company"}

Returned == pc \in {"return", "prompt"}
FetchFailed == failed \cap FetchOutcomes # {}

\* C1: scrape_job_posting never raises: whatever the fetch comes to, it
\* returns a record of exactly the 14 fields, and when the fetch fails the
\* url is the input url, every scalar is absent, every sequence is empty and
\* raw_text is the empty string.
C1_ScrapeNeverRaises ==
    /\ pc # "raise"
    /\ Returned =>
          /\ DOMAIN job_data = JobFields
          /\ job_data.url = url
          /\ FetchFailed =>
                /\ \A f \in ScalarFields : job_data[f] = None
                /\ \A f \in SectionFields \cup {"skills_mentioned"} : job_data[f] = <<>>
                /\ job_data.raw_text = <<>>

\* C1 witness: the navigation timed out and the call returned.
C1_Witness ==
    /\ pc = "return"
    /\ failed = {"navigation_timeout"}
    /\ page.visible_text # <<>>
    /\ job_data.raw_text = <<>>

\* C2: after a fetch that returned, the record holds the defaults for the
\* fields of exactly the stages that raised, the results of the stages that
\* did not, and the fetched text in raw_text.
C2_StageIsolation ==
    (Returned /\ ~FetchFailed) =>
        LET basic_info == extract_basic_info(text, json_ld)
            secs == parse_job_text(text)
        IN  /\ job_data.raw_text = page.visible_text
            /\ \A f \in ScalarFields :
                  job_data[f] = IF "basic_info" \in failed THEN None ELSE basic_info[f]
            /\ job_data.responsibilities
                  = IF "sections" \in failed THEN <<>> ELSE secs.responsibilities
            /\ job_data.requirements
                  = IF "sections" \in failed THEN <<>> ELSE secs.requirements
            /\ job_data.preferred_qualifications
                  = IF "sections" \in failed THEN <<>> ELSE secs.preferred
            /\ job_data.benefits
                  = IF "sections" \in failed THEN <<>> ELSE secs.benefits
            /\ job_data.about_company
                  = IF "sections" \in failed THEN <<>> ELSE secs.about_company
            /\ job_data.skills_mentioned
                  = IF "skills" \in failed THEN <<>> ELSE extract_skills(text)

\* C2 witness: the segmentation alone raised on a text that has a section,
\* and the record holds the skills, the basic info and the text.
C2_Witness ==
    /\ pc = "return"
    /\ failed = {"sections"}
    /\ parse_job_text(text).requirements # <<>>
    /\ job_data.requirements = <<>>
    /\ job_data.skills_mentioned # <<>>
    /\ job_data.title # None
    /\ job_data.raw_text # <<>>

\* no heading pattern of any category matches anywhere in the text
NoHeading(t) ==
    \A i \in 1..Len(section_patterns) :
        \A j \in 1..Len(section_patterns[i].patterns) :
            FindIter(section_patterns[i].patterns[j], t, 0) = <<>>

\* C6: for a text no heading pattern matches, parse_job_text returns five
\* empty sequences, and the record built from a fetch that returned that
\* text has a non-empty raw_text whenever the text is non-empty.
C6_NoHeadingRawText ==
    (Returned /\ ~FetchFailed /\ NoHeading(page.visible_text)) =>
        /\ "sections" \notin failed =>
              \A type \in SectionTypes : sections[type] = <<>>
        /\ \A f \in SectionFields : job_data[f] = <<>>
        /\ page.visible_text # <<>> => job_data.raw_text # <<>>

\* C6 witness: a text of two lines and no heading was segmented.
C6_Witness ==
    /\ pc = "return"
    /\ failed = {}
    /\ NoHeading(page.visible_text)
    /\ Len(LinesOf(page.visible_text)) = 2
    /\ job_data.raw_text = page.visible_text

\* C7: for a record whose five section sequences are empty and whose
\* raw_text is non-empty, the text format_job_for_prompt returns holds
\* raw_text, or its first 8000 characters.
C7_RawTextSurfaced ==
    (/\ pc = "prompt"
     /\ \A f \in SectionFields : job_data[f] = <<>>
     /\ job_data.raw_text # <<>>) =>
        LET raw == job_data.raw_text
        IN  \E k \in 1..Len(raw) :
                /\ Contains(prompt, SubSeq(raw, 1, k))
                /\ k = Len(raw) \/ StrLen(SubSeq(raw, 1, k + 1)) > 8000

\* C7 witness: a record with skills and no section, whose prompt holds the
\* raw text.
C7_Witness ==
    /\ pc = "prompt"
    /\ \A f \in SectionFields : job_data[f] = <<>>
    /\ job_data.skills_mentioned # <<>>
    /\ job_data.raw_text # <<>>
    /\ Contains(prompt, job_data.raw_text)


\* ------------------------------------------------------------------------
\* SpecMeta: extract_basic_info applied to the shapes the title and the
\* location of the metadata can take
\* ------------------------------------------------------------------------
Named(s) == DictOf({<<"name", JStr(s)>>})

Titles == {NoScript, None, JStr(<<>>), JStr(<<"Engineer">>),
           JStr(<<" ", "Engineer", " ">>), JNum(50)}
Localities == {NoScript, JStr(<<"Berlin">>), Named(<<"Berlin">>)}
Regions == {NoScript, JStr(<<"DE">>), Named(<<"DE">>)}
Countries == {NoScript, JStr(<<"Germany">>), Named(<<"Germany">>)}

Addresses ==
    {DictOf(Field("addressLocality", l) \cup Field("addressRegion", r)
            \cup Field("addressCountry", c)) :
        l \in Localities, r \in Regions, c \in Countries}
    \cup {JStr(<<"Berlin", ",", " ", "DE">>),
          DictOf({<<"addressLocality", JNum(50)>>, <<"addressCountry", JStr(<<"DE">>)>>}),
          DictOf({<<"addressLocality", DictOf({<<"name", None>>})>>,
                  <<"addressCountry", JStr(<<"DE">>)>>}),
          DictOf({<<"addressLocality", JStr(<<>>)>>})}

Elsewhere == DictOf({<<"address", DictOf({<<"addressLocality", JStr(<<"Acme">>)>>})>>})

JobLocations ==
    UNION {{DictOf({<<"address", a>>}),
            JList(<<DictOf({<<"address", a>>})>>),
            JList(<<DictOf({<<"address", a>>}), Elsewhere>>)} : a \in Addresses}
    \cup {JList(<<>>), JStr(<<"Berlin">>), DictOf({}), None}

MetaShapes ==
    {DictOf(Field("title", x) \cup Field("employmentType", x)
            \cup Field("hiringOrganization", x)) : x \in Titles}
    \cup {DictOf({<<"hiringOrganization", Named(x)>>}) :
             x \in {<<>>, <<"Acme">>, <<"Acme", " ">>}}
    \cup {DictOf({<<"jobLocation", l>>}) : l \in JobLocations}

MetaTexts == {<<>>, <<"Engineer", " ", "onsite">>}

InitMeta ==
    /\ text \in MetaTexts
    /\ json_ld \in MetaShapes
    /\ pc = "call"
    /\ Untouched({"text", "json_ld"})

SpecMeta == InitMeta /\ [][NextBasic]_vars

InfoFields ==
    {"title", "company", "location", "employment_type", "salary", "work_arrangement"}

\* C11: each of the six fields of the result of extract_basic_info is
\* absent or a non-empty string without leading or trailing whitespace.
C11_FieldsTrimmedOrAbsent ==
    pc = "return" =>
        \A f \in InfoFields :
            \/ info[f] = None
            \/ IsStr(info[f]) /\ info[f].v # <<>> /\ Strip(info[f].v) = info[f].v

\* the value of one of the three address fields is a string, or an object
\* whose name is a string
AddressValue(x) == IsStr(x) \/ (IsDict(x) /\ HasField(x, "name") /\ IsStr(x.v["name"]))

\* the location the metadata names: the first entry of a list, or the object
LocationOf(j) ==
    IF IsList(j.v["jobLocation"]) /\ j.v["jobLocation"].v # <<>>
    THEN j.v["jobLocation"].v[1] ELSE j.v["jobLocation"]

AddressKeys == <<"addressLocality", "addressRegion", "addressCountry">>

\* the metadata gives a jobLocation with an address object whose three
\* fields, where present, are strings or named objects
HasAddress(j) ==
    /\ IsDict(j) /\ HasField(j, "jobLocation")
    /\ IsDict(LocationOf(j)) /\ HasField(LocationOf(j), "address")
    /\ IsDict(LocationOf(j).v["address"])
    /\ \A i \in 1..3 :
          HasField(LocationOf(j).v["address"], AddressKeys[i])
              => AddressValue(LocationOf(j).v["address"].v[AddressKeys[i]])

\* the value of address field i as the claim reads it: none, or one string
ClaimedPart(addr, i) ==
    IF ~HasField(addr, AddressKeys[i]) THEN <<>>
    ELSE IF IsStr(addr.v[AddressKeys[i]]) THEN <<addr.v[AddressKeys[i]].v>>
    ELSE <<addr.v[AddressKeys[i]].v["name"].v>>

\* C19: when the metadata gives jobLocation (an object, or a list whose
\* first entry is used) with an address object, location is the present
\* locality, region and country, in that order, joined by ", ", each taken
\* as it is when a string and from its name when an object; location is
\* absent when none of the three is present.
C19_LocationFromAddress ==
    (pc = "return" /\ HasAddress(json_ld)) =>
        LET addr == LocationOf(json_ld).v["address"]
            parts == ClaimedPart(addr, 1) \o ClaimedPart(addr, 2) \o ClaimedPart(addr, 3)
        IN  info.location = IF parts = <<>> THEN None
                            ELSE JStr(Join(<<",", " ">>, parts))

\* C19 witness: the first entry of a list of two locations gives a locality
\* as a string and a country as a named object, and no region.
C19_Witness ==
    /\ pc = "return"
    /\ HasAddress(json_ld)
    /\ IsList(json_ld.v["jobLocation"]) /\ Len(json_ld.v["jobLocation"].v) = 2
    /\ info.location = JStr(<<"Berlin", ",", " ", "Germany">>)
    /\ IsDict(LocationOf(json_ld).v["address"].v["addressCountry"])


\* the metadata gives the salary as an object with a value object whose
\* bounds, where present, are numbers and whose unit, where present, is a
\* string
StructuredSalary(j) ==
    /\ IsDict(j) /\ HasField(j, "baseSalary")
    /\ IsDict(j.v["baseSalary"]) /\ HasField(j.v["baseSalary"], "value")
    /\ IsDict(j.v["baseSalary"].v["value"])
    /\ \A k \in {"minValue", "maxValue"} :
          HasField(j.v["baseSalary"].v["value"], k)
              => IsNum(j.v["baseSalary"].v["value"].v[k])
    /\ HasField(j.v["baseSalary"].v["value"], "unitText")
          => IsStr(j.v["baseSalary"].v["value"].v["unitText"])

\* a bound of the range, zero when it is left out
Bound(j, k) ==
    IF HasField(j.v["baseSalary"].v["value"], k)
    THEN j.v["baseSalary"].v["value"].v[k].v ELSE 0

\* the unit of the range, YEAR when it is left out
UnitOf(j) ==
    IF HasField(j.v["baseSalary"].v["value"], "unitText")
    THEN j.v["baseSalary"].v["value"].v["unitText"].v ELSE <<"YEAR">>

\* a dollar amount below a million, its thousands set off by a comma
Dollars(n) ==
    IF n < 1000 THEN <<"$", ToString(n)>>
    ELSE <<"$", ToString(n \div 1000), ",",
           IF n % 1000 = 0 THEN "000" ELSE ToString(1000 + (n % 1000))>>

\* C20: when the metadata gives the salary as a structured min/max/unit
\* object, salary is "$<min> - $<max> per <unit>" with the unit lowercased,
\* and the metadata contributes no salary (the result is the one the text
\* alone gives) when both bounds are zero or absent.
C20_StructuredSalary ==
    (pc = "return" /\ StructuredSalary(json_ld)) =>
        IF Bound(json_ld, "minValue") = 0 /\ Bound(json_ld, "maxValue") = 0
        THEN info.salary = extract_basic_info(text, None).salary
        ELSE info.salary =
                JStr(Dollars(Bound(json_ld, "minValue")) \o <<" ", "-", " ">>
                     \o Dollars(Bound(json_ld, "maxValue")) \o <<" ", "per", " ">>
                     \o Lower(UnitOf(json_ld)))

\* C20 witness: the metadata gives a range with a zero minimum, no maximum
\* and a unit, and the salary returned is the one found in the text.
C20_Witness ==
    /\ pc = "return"
    /\ StructuredSalary(json_ld)
    /\ HasField(json_ld.v["baseSalary"].v["value"], "minValue")
    /\ ~HasField(json_ld.v["baseSalary"].v["value"], "maxValue")
    /\ HasField(json_ld.v["baseSalary"].v["value"], "unitText")
    /\ Bound(json_ld, "minValue") = 0
    /\ IsStr(info.salary)


\* ------------------------------------------------------------------------
\* SpecArrangement: extract_basic_info applied to texts made of a work
\* arrangement keyword and a phrase about days in the office
\* ------------------------------------------------------------------------
Keywords ==
    {<<>>, <<"Remote">>, <<"remote">>, <<"Hybrid">>, <<"hybrid">>, <<"onsite">>,
     <<"On", "-", "site">>, <<"in", "-", "office">>, <<"Remote", " ", "hybrid">>,
     <<"office">>}

DayCounts == {<<"3">>, <<"5">>}
DayWords == {<<" ", "days">>, <<" ", "day">>, <<" ", "week">>}
PerWeek ==
    {<<>>, <<" ", "per", " ", "week">>, <<" ", "/", " ", "week">>, <<"/", "week">>,
     <<" ", "per", " ", "hour">>}
InWords == {<<>>, <<" ", "in">>}
Places == {<<" ", "office">>, <<" ", "on", "-", "site">>, <<" ", "onsite">>, <<" ", "site">>}

DayPhrases ==
    {n \o d \o w \o i \o p :
        n \in DayCounts, d \in DayWords, w \in PerWeek, i \in InWords, p \in Places}

ArrangementTexts ==
    Keywords
    \cup {k \o <<"\n">> \o p : k \in Keywords, p \in DayPhrases}
    \cup {p \o <<"\n">> \o k : k \in Keywords \ {<<>>}, p \in DayPhrases}
    \cup {<<"Hybrid", " ", "3", " ", "days", " ", "in", " ", "office", "\n",
            "5", " ", "days", " ", "onsite">>}

ArrangementMeta ==
    {None, DictOf({<<"jobLocationType", JStr(<<"Remote">>)>>,
                   <<"title", JStr(<<"Hybrid", " ", "Engineer">>)>>})}

InitArrangement ==
    /\ text \in ArrangementTexts
    /\ json_ld \in ArrangementMeta
    /\ pc = "call"
    /\ Untouched({"text", "json_ld"})

SpecArrangement == InitArrangement /\ [][NextBasic]_vars

\* the first position from i on that holds no white space
SkipSpace(t, i) ==
    IF \E j \in i..Len(t) : t[j] \notin Space
    THEN CHOOSE j \in i..Len(t) :
            t[j] \notin Space /\ \A k \in i..(j - 1) : t[k] \in Space
    ELSE Len(t) + 1

\* the lowercased lexeme at position i, none beyond the end
At(t, i) == IF i \in 1..Len(t) THEN LexLower[t[i]] ELSE ""

\* "<N> days [per week] [in] (office|on-site)" read at position i
DaysPhraseAt(t, i) ==
    LET d == SkipSpace(t, i + 1)
        w == SkipSpace(t, d + 1)
        x == IF At(t, w) \in {"per", "/"} /\ At(t, SkipSpace(t, w + 1)) = "week"
             THEN SkipSpace(t, SkipSpace(t, w + 1) + 1) ELSE w
        p == IF At(t, x) = "in" THEN SkipSpace(t, x + 1) ELSE x
    IN  /\ t[i] \in Digits
        /\ At(t, d) \in {"days", "day"}
        /\ \/ At(t, p) \in {"office", "onsite"}
           \/ At(t, p) = "on" /\ At(t, p + 1) = "-" /\ At(t, p + 2) = "site"

\* the arrangement the claim gives for a text
ClaimedArrangement(t) ==
    LET has(w) == Contains(Lower(t), w)
    IN  IF has(<<"remote">>) /\ ~has(<<"hybrid">>) THEN JStr(<<"Remote">>)
        ELSE IF has(<<"hybrid">>)
        THEN IF \E i \in 1..Len(t) : DaysPhraseAt(t, i)
             THEN LET first == CHOOSE i \in 1..Len(t) :
                          DaysPhraseAt(t, i) /\ \A j \in 1..(i - 1) : ~DaysPhraseAt(t, j)
                  IN  JStr(<<"Hybrid", " ", "(", t[first], " ", "days", "/", "week",
                             " ", "in", " ", "office", ")">>)
             ELSE JStr(<<"Hybrid">>)
        ELSE IF has(<<"on", "-", "site">>) \/ has(<<"onsite">>) \/ has(<<"in", "-", "office">>)
        THEN JStr(<<"On", "-", "site">>)
        ELSE None

MaxSpanLines == 4
SpanLines == {
    <<"What", " ", "you", "'ll", " ", "do">>,
    <<"Requirements", ":">>,
    <<"Preferred", " ", "Qualifications">>,
    <<"Build scalable backend services for our platform", ".">>,
    <<"Strong knowledge of", " ", "Go", ".">>}
\* a category interrupted by another one
Interleaved ==
    JoinLines(<<
        <<"Requirements", ":">>,
        <<"Strong knowledge of", " ", "Go", ".">>,
        <<"What", " ", "you", "'ll", " ", "do">>,
        <<"Collaborate with cross-functional teams on", " ", "system", " ", "design", ".">>,
        <<"Requirements", ":">>,
        <<"Build scalable backend services for our platform", ".">> >>)

SpanTexts ==
    {JoinLines(ls) : ls \in LinesOver(SpanLines, MaxSpanLines)} \cup {Interleaved}

InitSpans ==
    /\ text \in SpanTexts
    /\ pc = "call"
    /\ Untouched({"text"})

SpecSpans == InitSpans /\ [][NextParse]_vars

\* the offsets of the text inside the content span of position i
Span(ps, i, t) ==
    {k \in 0..(Len(t) - 1) : ps[i].start <= k /\ k < EndPos(ps, i, t)}

\* how often x occurs in a sequence
Count(seq, x) == Cardinality({i \in DOMAIN seq : seq[i] = x})

\* the cleaned pieces of the whole text between item separators
TextPieces(t) ==
    LET pieces == Split(SplitPattern, t)
    IN  [j \in 1..Len(pieces) |-> clean_text(pieces[j])]

\* the items of all five categories
AllItems(secs) ==
    secs["responsibilities"] \o secs["requirements"] \o secs["preferred"]
        \o secs["benefits"] \o secs["about_company"]

\* C15: a later heading of any category ends the content run of the previous
\* heading: with the headings ordered by content start, the content spans are
\* pairwise disjoint, the span of heading i holds no offset at or after the
\* header start of heading i+1, and no piece of the text yields more items
\* than it has occurrences in the text.
C15_SpansDisjoint ==
    pc = "return" =>
        \A ps \in {SectionPositions(text)}, items \in {AllItems(sections)},
           pieces \in {TextPieces(text)} :
            /\ \A i, j \in 1..Len(ps) :
                  i < j => Span(ps, i, text) \cap Span(ps, j, text) = {}
            /\ \A i \in 1..(Len(ps) - 1) :
                  \A k \in Span(ps, i, text) : k < ps[i + 1].header_start
            /\ \A n \in 1..Len(items) :
                  Count(items, items[n]) <= Count(pieces, items[n])

\* C15 witness: two headings of different categories, each with a non-empty
\* span, and an item in each of the two categories.
C15_Witness ==
    /\ pc = "return"
    /\ sections["responsibilities"] # <<>>
    /\ sections["requirements"] # <<>>
    /\ \E ps \in {SectionPositions(text)} :
          /\ Len(ps) = 2
          /\ ps[1].type # ps[2].type
          /\ Span(ps, 1, text) # {}
          /\ Span(ps, 2, text) # {}


\* C16: when a category is introduced by several heading occurrences that
\* are not contiguous, its output is the concatenation of the surviving items
\* of those occurrences in document order; stated for texts whose heading
\* lines are each of one category: every category holds the content lines
\* under its headings in the order of the text.
C16_OccurrencesConcatenated ==
    (/\ pc = "return"
     /\ \A ls \in {LinesOf(text)} :
           \A i \in 1..Len(ls) : Cardinality(HeadingTypes(ls[i])) <= 1) =>
        \A ls \in {LinesOf(text)}, type \in SectionTypes :
            sections[type] = ContentUnder(ls, type, 1)

\* C16 witness: requirements is introduced twice, with a responsibilities
\* section in between, and holds the item of the first occurrence before the
\* item of the second.
C16_Witness ==
    /\ pc = "return"
    /\ text = Interleaved
    /\ sections["requirements"] =
           <<<<"Strong knowledge of", " ", "Go", ".">>,
             <<"Build scalable backend services for our platform", ".">>>>
    /\ Len(sections["responsibilities"]) = 1


\* the place of discovered position i in a stable sort by content start
Rank(D, i) ==
    Cardinality({j \in 1..Len(D) :
        \/ D[j].start < D[i].start
        \/ D[j].start = D[i].start /\ j < i}) + 1

\* the positions are the discovered ones, none dropped or merged, in
\* non-decreasing order of content start, ties in discovery order
StablySorted(D, ps) ==
    /\ Len(ps) = Len(D)
    /\ \A i \in 1..Len(D) : ps[Rank(D, i)] = D[i]

\* position i shares its content start with another position
Tied(ps, i) == \E j \in 1..Len(ps) : j # i /\ ps[j].start = ps[i].start

\* the text inside the span of position i
SpanText(ps, i, t) == Slice(t, ps[i].start, EndPos(ps, i, t))

\* C17 as stated: the positions are processed in non-decreasing order of
\* content start, ties in discovery order, and headings of different
\* categories at the same position are both kept, each with a span of zero
\* or nearly zero length (at most white space).
C17_TiedPositions ==
    pc = "return" =>
        \A D \in {Discovered(1, text)}, ps \in {SectionPositions(text)} :
            /\ StablySorted(D, ps)
            /\ \A i \in 1..Len(ps) :
                  Tied(ps, i) => Strip(SpanText(ps, i, text)) = <<>>

\* the first position after i with a later content start, 0 when none
NextDistinct(ps, i) ==
    IF \E j \in (i + 1)..Len(ps) : ps[j].start > ps[i].start
    THEN CHOOSE j \in (i + 1)..Len(ps) :
            ps[j].start > ps[i].start /\ \A k \in (i + 1)..(j - 1) : ps[k].start = ps[i].start
    ELSE 0

\* C17 amended: the positions are processed in non-decreasing order of
\* content start, ties in discovery order, and headings at the same position
\* are all kept: each of them but the last processed has an empty span and
\* adds nothing, and the last has the span that runs to the header start of
\* the next distinct heading position, or to the end of the text.
C17_LastTiedTakesSpan ==
    pc = "return" =>
        \A D \in {Discovered(1, text)}, ps \in {SectionPositions(text)} :
            /\ StablySorted(D, ps)
            /\ \A i \in 1..Len(ps) :
                  IF i < Len(ps) /\ ps[i + 1].start = ps[i].start
                  THEN Span(ps, i, text) = {} /\ Appended(ps, i, text) = <<>>
                  ELSE Span(ps, i, text) =
                          {k \in 0..(Len(text) - 1) :
                              /\ ps[i].start <= k
                              /\ NextDistinct(ps, i) # 0
                                    => k < ps[NextDistinct(ps, i)].header_start}
            /\ \A type \in SectionTypes :
                  (\A i \in 1..Len(ps) :
                       ps[i].type = type => i < Len(ps) /\ ps[i + 1].start = ps[i].start)
                      => sections[type] = <<>>

\* C17 witness: two categories detected at the same position; the first has
\* an empty span and no item, the second a span that yields an item.
C17_Witness ==
    /\ pc = "return"
    /\ \E ps \in {SectionPositions(text)} :
          \E i \in 1..(Len(ps) - 1) :
              /\ ps[i].start = ps[i + 1].start
              /\ ps[i].type = "requirements" /\ ps[i + 1].type = "preferred"
              /\ Span(ps, i, text) = {}
              /\ Span(ps, i + 1, text) # {}
    /\ sections["requirements"] = <<>>
    /\ sections["preferred"] # <<>>


\* ------------------------------------------------------------------------
\* SpecHeadings: parse_job_text applied to a heading phrasing of the
\* responsibilities table with a content line under it, alone or next to a
\* requirements section
\* ------------------------------------------------------------------------
ResponsibilityHeadings == {
    <<"Responsibilities">>,
    <<"Key", " ", "Responsibilities">>,
    <<"What", " ", "you", "'ll", " ", "do">>,
    <<"What", " ", "you", " ", "will", " ", "do">>,
    <<"What", " ", "you", "'ll", " ", "be", " ", "doing">>,
    <<"Your", " ", "role">>,
    <<"Your", " ", "Responsibilities">>,
    <<"The", " ", "role">>,
    <<"This", " ", "role">>,
    <<"About", " ", "the", " ", "role">>,
    <<"About", " ", "the", " ", "job">>,
    <<"About", " ", "the", " ", "position">>,
    <<"Job", " ", "description">>,
    <<"As", " ", "a", " ", "Engineer", " ", "you", " ", "will">>}

HeadingEnds == {<<>>, <<":">>}

HeadingContents == {
    <<"Build scalable backend services for our platform", ".">>,
    <<"Collaborate with cross-functional teams on", " ", "system", " ", "design", ".">>}

RequirementsSection ==
    <<"Requirements", ":", "\n", "Strong knowledge of", " ", "Go", ".">>

HeadingTexts ==
    {before \o h \o e \o <<"\n">> \o c \o after :
        h \in ResponsibilityHeadings, e \in HeadingEnds, c \in HeadingContents,
        before \in {<<>>, RequirementsSection \o <<"\n">>},
        after \in {<<>>, <<"\n">> \o RequirementsSection}}

InitHeadings ==
    /\ text \in HeadingTexts
    /\ pc = "call"
    /\ Untouched({"text"})

SpecHeadings == InitHeadings /\ [][NextParse]_vars

\* the line is a heading of the responsibilities pattern table
ResponsibilitiesHeading(line) ==
    \E j \in 1..Len(section_patterns[1].patterns) :
        FindIter(section_patterns[1].patterns[j], line, 0) # <<>>

\* line i is a content line under the heading line h: no heading line lies
\* between them
Under(ls, h, i) ==
    /\ h < i
    /\ \A k \in (h + 1)..i : HeadingTypes(ls[k]) = {}

\* C18: for every heading phrasing of the responsibilities pattern table,
\* "About the role", "About the job" and "About the position" among them, the
\* items that follow the heading line up to the next heading are appended to
\* responsibilities and to no other category.
C18_ResponsibilitiesHeadings ==
    pc = "return" =>
        \A ls \in {LinesOf(text)} :
            \A h, i \in 1..Len(ls) :
                (/\ ResponsibilitiesHeading(ls[h]) /\ Under(ls, h, i)
                 /\ KeepLine(clean_text(ls[i]))) =>
                    /\ Count(sections["responsibilities"], clean_text(ls[i])) = 1
                    /\ \A type \in SectionTypes \ {"responsibilities"} :
                          Count(sections[type], clean_text(ls[i])) = 0


\* ------------------------------------------------------------------------
\* get_company_info (main.py:93-185) on the language model's answer
\* ------------------------------------------------------------------------
invalid_company_names == {
    <<"null">>, <<"none">>, <<"unknown">>, <<"not", " ", "found">>,
    <<"not", " ", "specified">>, <<"n", "/", "a">>, <<"na">>,
    <<"the", " ", "company">>, <<"company">>, <<"company", " ", "name">>,
    <<"company", " ", "name", " ", "here">>, <<"[", "company", "]">>,
    <<"[", "company", " ", "name", "]">>}

invalid_role_names == {
    <<"null">>, <<"none">>, <<"unknown">>, <<"not", " ", "found">>,
    <<"not", " ", "specified">>, <<"n", "/", "a">>, <<"na">>,
    <<"the", " ", "role">>, <<"role">>, <<"job", " ", "title">>,
    <<"job", " ", "title", " ", "here">>, <<"[", "role", "]">>,
    <<"[", "job", " ", "title", "]">>}

\* lines 166-183: what the validation of one field comes to; a value that
\* is truthy and no string has no lower() and raises an AttributeError
FieldCheck(value, invalid) ==
    IF ~Truthy(value) THEN "JobInfoError"
    ELSE IF ~IsStr(value) THEN "Exception"
    ELSE IF Strip(Lower(value.v)) \in invalid THEN "JobInfoError"
    ELSE "ok"

\* lines 160-185: an answer json.loads raises on, an answer that is no
\* object (it has no get()), or an object whose two fields are validated
get_company_info(answer) ==
    IF answer = BadScript THEN "JobInfoError"
    ELSE IF ~IsDict(answer) THEN "Exception"
    ELSE IF FieldCheck(Get(answer, "company_name"), invalid_company_names) # "ok"
    THEN FieldCheck(Get(answer, "company_name"), invalid_company_names)
    ELSE FieldCheck(Get(answer, "role"), invalid_role_names)

\* generate_cover_letter_sections (main.py:328-388): extract_contact_info,
\* then get_company_info, then invoke_generation; each of the first and the
\* last returns or raises
generate_cover_letter_sections(contact_ok, answer, generation_ok) ==
    IF ~contact_ok THEN "Exception"
    ELSE IF get_company_info(answer) # "ok" THEN get_company_info(answer)
    ELSE IF ~generation_ok THEN "Exception"
    ELSE "ok"

\* ------------------------------------------------------------------------
\* The /generate handler (api.py:218-303)
\* ------------------------------------------------------------------------
EndsWith(s, suffix) ==
    Len(s) >= Len(suffix) /\ SubSeq(s, Len(s) - Len(suffix) + 1, Len(s)) = suffix

\* bool(x) for a form field, and "is not None" for an upload
Supplied(x) == Truthy(x)
Uploaded(x) == x # None

\* line 232
JobInputs(req) ==
    (IF Supplied(req.job_url) THEN 1 ELSE 0)
    + (IF Supplied(req.job_description) THEN 1 ELSE 0)
    + (IF Uploaded(req.job_pdf) THEN 1 ELSE 0)

\* a mutation of Rejects: a request with several job inputs is let through
RejectsNoInputOnly(req) ==
    \/ JobInputs(req) = 0
    \/ ~EndsWith(Lower(IF Truthy(req.resume_filename) THEN req.resume_filename.v ELSE <<>>),
                 <<".", "pdf">>)

\* lines 234-245: the three checks that raise the 400 response
Rejects(req) ==
    \/ JobInputs(req) = 0
    \/ JobInputs(req) > 1
    \/ ~EndsWith(Lower(IF Truthy(req.resume_filename) THEN req.resume_filename.v ELSE <<>>),
                 <<".", "pdf">>)

\* a mutation of StatusOf: one handler for every exception
StatusOfAnyException(exception) == 500

\* lines 298-303
StatusOf(exception) == IF exception = "JobInfoError" THEN 400 ELSE 500

Call(fn, arg) == [fn |-> fn, arg |-> arg]
Called(fn) == \E i \in 1..Len(calls) : calls[i].fn = fn

\* lines 232-245
Validate ==
    /\ pc = "request"
    /\ IF Rejects(request)
       THEN status' = 400 /\ pc' = "done"
       ELSE status' = status /\ pc' = "read"
    /\ UNCHANGED <<url, page, text, json_ld, sections, skills, info, prompt, job_data,
                   failed, request, calls, raised, reply>>
    /\ UNCHANGED <<concurrent, letters>>

\* lines 248-252: the uploads are read and the resume is parsed, or the
\* parser raises
ReadResume ==
    /\ pc = "read"
    /\ calls' = Append(calls, Call("parse_resume_from_bytes", request.resume_filename))
    /\ \E parsed \in BOOLEAN :
          IF parsed
          THEN pc' = "job" /\ raised' = raised /\ status' = status
          ELSE pc' = "done" /\ raised' = "Exception" /\ status' = StatusOf("Exception")
    /\ UNCHANGED <<url, page, text, json_ld, sections, skills, info, prompt, job_data,
                   failed, request, reply>>
    /\ UNCHANGED <<concurrent, letters>>

PdfTexts == {<<>>, <<"Engineer", " ", "onsite">>}

\* lines 254-257: the scraper is called with the url of the request
CallScraper ==
    /\ pc = "job"
    /\ Supplied(request.job_url)
    /\ url' = Head(request.job_url.v)
    /\ calls' = Append(calls, Call("scrape_job_posting", request.job_url))
    /\ pc' = "call"
    /\ UNCHANGED <<page, text, json_ld, sections, skills, info, prompt, job_data,
                   failed, request, status, raised, reply>>
    /\ UNCHANGED <<concurrent, letters>>

\* lines 259-262: the job posting is an uploaded PDF, which parses or not
ParseJobPdf ==
    /\ pc = "job"
    /\ ~Supplied(request.job_url) /\ Uploaded(request.job_pdf)
    /\ calls' = Append(calls, Call("parse_resume_from_bytes", request.job_pdf))
    /\ \E parsed \in BOOLEAN, job_desc \in PdfTexts :
          IF parsed
          THEN pc' = "prompt" /\ prompt' = job_desc
               /\ raised' = raised /\ status' = status
          ELSE pc' = "done" /\ prompt' = prompt
               /\ raised' = "Exception" /\ status' = StatusOf("Exception")
    /\ UNCHANGED <<url, page, text, json_ld, sections, skills, info, job_data,
                   failed, request, reply>>
    /\ UNCHANGED <<concurrent, letters>>

\* lines 263-264: the job posting is the text of the form
TakeJobDescription ==
    /\ pc = "job"
    /\ ~Supplied(request.job_url) /\ ~Uploaded(request.job_pdf)
    /\ prompt' = IF request.job_description = None THEN <<>> ELSE request.job_description.v
    /\ pc' = "prompt"
    /\ UNCHANGED <<url, page, text, json_ld, sections, skills, info, job_data,
                   failed, request, status, calls, raised, reply>>
    /\ UNCHANGED <<concurrent, letters>>

\* what the language model may answer
Answers ==
    {BadScript, JList(<<>>), JDict(<<>>)}
    \cup {DictOf(Field("company_name", c) \cup Field("role", r)) :
            c \in {None, JStr(<<>>), JStr(<<"Acme">>), JStr(<<"N", "/", "A">>),
                   JStr(<<" ", "Unknown", " ">>), JStr(<<"null">>), JNum(5)},
            r \in {NoScript, JStr(<<"Engineer">>), JStr(<<"Job", " ", "Title">>)}}

\* lines 268-271 and 298-303: the generator is called with the job
\* description; it returns, or what it raises becomes the response
Generate ==
    /\ pc = "prompt"
    /\ calls' = Append(calls, Call("generate_cover_letter_sections", prompt))
    /\ \E contact_ok \in BOOLEAN, answer \in Answers, generation_ok \in BOOLEAN :
          LET outcome == generate_cover_letter_sections(contact_ok, answer, generation_ok)
          IN  /\ reply' = IF contact_ok THEN answer ELSE reply
              /\ IF outcome = "ok"
                 THEN pc' = "compile" /\ raised' = raised /\ status' = status
                 ELSE pc' = "done" /\ raised' = outcome /\ status' = StatusOf(outcome)
    /\ UNCHANGED <<url, page, text, json_ld, sections, skills, info, prompt, job_data,
                   failed, request>>
    /\ UNCHANGED <<concurrent, letters>>

\* lines 274-296: the letter is compiled and returned, or the compiler raises
Compile ==
    /\ pc = "compile"
    /\ calls' = Append(calls, Call("compile_latex_with_logo", None))
    /\ \E compiled \in BOOLEAN :
          IF compiled
          THEN raised' = raised /\ status' = 200
          ELSE raised' = "Exception" /\ status' = StatusOf("Exception")
    /\ pc' = "done"
    /\ UNCHANGED <<url, page, text, json_ld, sections, skills, info, prompt, job_data,
                   failed, request, reply>>
    /\ UNCHANGED <<concurrent, letters>>

\* ------------------------------------------------------------------------
\* SpecApi: one /generate request, from its validation to its response
\* ------------------------------------------------------------------------
JobUrlFields == {None, JStr(<<>>), JStr(<<"https://jobs.example/1">>)}
JobDescriptionFields ==
    {None, JStr(<<>>), JStr(<<"Engineer", " ", "onsite">>)}
Upload == DictOf({<<"filename", JStr(<<"job", ".", "pdf">>)>>})
ResumeFilenames ==
    {None, JStr(<<>>), JStr(<<"cv", ".", "pdf">>), JStr(<<"CV", ".", "PDF">>),
     JStr(<<"cv", ".", "txt">>), JStr(<<"pdf">>)}

Requests ==
    [job_url : JobUrlFields, job_description : JobDescriptionFields,
     job_pdf : {None, Upload}, resume_filename : ResumeFilenames]

ApiPages ==
    {NoPage,
     [visible_text |-> <<"Requirements", "\n", "Strong knowledge of", " ", "Go", ".">>,
      script |-> JobPosting]}

InitApi ==
    /\ request \in Requests
    /\ page \in ApiPages
    /\ pc = "request"
    /\ Untouched({"page", "request"})

NextApi ==
    \/ Validate
    \/ ReadResume
    \/ CallScraper
    \/ ScrapeFetchFailed
    \/ ScrapeFetched
    \/ FormatJobForPrompt
    \/ ParseJobPdf
    \/ TakeJobDescription
    \/ Generate
    \/ Compile

SpecApi == InitApi /\ [][NextApi]_vars


\* the number of job inputs the request supplies: a non-empty job_url, a
\* non-empty job_description, an uploaded job_pdf
InputsSupplied(req) ==
    Cardinality({k \in {"job_url", "job_description"} : IsStr(req[k]) /\ req[k].v # <<>>})
        + (IF req.job_pdf = None THEN 0 ELSE 1)

\* the request has passed the validation: the handler is about to read the
\* resume, or has called a collaborator
PassedValidation == pc = "read" \/ calls # <<>>

\* the request has been rejected before anything was read or called
RejectedAtOnce == pc = "done" /\ status = 400 /\ calls = <<>>

\* C13 as stated: /generate rejects with HTTP 400, before it reads the resume
\* or calls the scraper or the generator, every request that supplies none or
\* more than one of the three job inputs and every request whose resume
\* filename does not end in ".pdf"; a request with exactly one job input and
\* a resume whose name ends in ".pdf" passes validation.
C13_Validation ==
    pc # "request" =>
        IF /\ InputsSupplied(request) = 1
           /\ IsStr(request.resume_filename)
           /\ EndsWith(request.resume_filename.v, <<".", "pdf">>)
        THEN PassedValidation
        ELSE RejectedAtOnce

\* C13 amended: the same, the ending ".pdf" compared without regard to case.
C13_ValidationAnyCase ==
    pc # "request" =>
        IF /\ InputsSupplied(request) = 1
           /\ IsStr(request.resume_filename)
           /\ EndsWith(Lower(request.resume_filename.v), <<".", "pdf">>)
        THEN PassedValidation
        ELSE RejectedAtOnce

\* C13 witness: a request with a job_url, a job_description and a resume
\* named cv.pdf has been answered with 400 and nothing has been called.
C13_Witness ==
    /\ RejectedAtOnce
    /\ InputsSupplied(request) = 2
    /\ request.resume_filename = JStr(<<"cv", ".", "pdf">>)

\* the answer is an object whose company_name and role, where present, are
\* strings or null
PlainAnswer(answer) ==
    /\ IsDict(answer)
    /\ \A k \in {"company_name", "role"} :
          HasField(answer, k) => (IsStr(answer.v[k]) \/ answer.v[k] = None)

\* the company name or the role of the answer is missing, empty, or one of
\* the placeholders null, unknown, n/a
LacksJobInfo(answer) ==
    \E k \in {"company_name", "role"} :
        \/ ~HasField(answer, k)
        \/ answer.v[k] = None
        \/ IsStr(answer.v[k])
           /\ Lower(answer.v[k].v) \in {<<>>, <<"null">>, <<"unknown">>, <<"n", "/", "a">>}

\* C14: a scrape that returns an all-empty record is no HTTP error: the
\* formatted record is passed on to the generator; a request that passed
\* validation ends with 400 exactly when the generator raised JobInfoError,
\* which it does when the company name or the role is missing, empty or a
\* placeholder, and with 500 exactly when anything else was raised.
C14_ErrorsFromGenerator ==
    (pc = "done" /\ PassedValidation) =>
        /\ status = 400 <=> raised = "JobInfoError"
        /\ status = 500 <=> raised = "Exception"
        /\ Called("scrape_job_posting") =>
              /\ job_data # None
              /\ \E i \in 1..Len(calls) :
                    /\ calls[i].fn = "generate_cover_letter_sections"
                    /\ calls[i].arg = format_job_for_prompt(job_data)
        /\ (reply # NoReply /\ PlainAnswer(reply) /\ LacksJobInfo(reply))
              => raised = "JobInfoError"

\* C14 witness: the fetch failed, the all-empty record was formatted and
\* handed to the generator, the answer names no company, and the response is
\* 400.
C14_Witness ==
    /\ pc = "done"
    /\ Called("scrape_job_posting")
    /\ job_data = DefaultJob(url)
    /\ Called("generate_cover_letter_sections")
    /\ reply # NoReply /\ PlainAnswer(reply) /\ Get(reply, "company_name") = None
    /\ raised = "JobInfoError"
    /\ status = 400


\* ------------------------------------------------------------------------
\* Precedence of the metadata over the text, checked under SpecBasic
\* ------------------------------------------------------------------------
MetadataFields == {"title", "company", "location", "employment_type", "salary"}

\* the salary patterns that match somewhere in the text
MatchingPatterns(t) ==
    {i \in 1..Len(salary_patterns) : SearchFrom(salary_patterns[i], t, 0) # NoMatch}

\* the salary the text gives: the groups of the first pattern that matches,
\* as $<low>[ - $<high>][ per <unit>]
ClaimedTextSalary(t) ==
    IF MatchingPatterns(t) = {} THEN None
    ELSE LET first == CHOOSE i \in MatchingPatterns(t) : \A k \in MatchingPatterns(t) : i <= k
             m == SearchFrom(salary_patterns[first], t, 0)
             low == Slice(t, m.g[1][1], m.g[1][2])
             high == IF m.g[2] = <<-1, -1>> THEN <<>>
                     ELSE <<" ", "-", " ", "$">> \o Slice(t, m.g[2][1], m.g[2][2])
             unit == IF m.g[3] = <<-1, -1>> THEN <<>>
                     ELSE <<" ", "per", " ">> \o Slice(t, m.g[3][1], m.g[3][2])
         IN  JStr(<<"$">> \o low \o high \o unit)

\* $<low>[ - $<high>][ per <unit>] and nothing else
SalaryShape ==
    Cat(<<Lit("$"), Rep(Digits \cup {","}, 1),
          Opt(Cat(<<Lit(" "), Lit("-"), Lit(" "), Lit("$"), Rep(Digits \cup {","}, 1)>>)),
          Opt(Cat(<<Lit(" "), Lit("per"), Lit(" "),
                    Alt(<<Lit("year"), Lit("yr"), Lit("annually"), Lit("hour"), Lit("hr"),
                          Lit("hourly"), Lit("month"), Lit("monthly")>>)>>))>>)

Shaped(s) ==
    \E i \in 1..Len(Match(SalaryShape, s, 0, NoGroups)) :
        Match(SalaryShape, s, 0, NoGroups)[i].e = Len(s)

\* C21: text-derived values only fill fields the metadata left absent: a
\* field the metadata supplies (title, company, location, employment type,
\* salary) has the value the metadata alone gives, whatever the text holds;
\* when the metadata gives no salary, the salary is the one of the first
\* pattern that matches the text, of the form $<low>[ - $<high>][ per <unit>].
C21_TextFillsAbsentOnly ==
    pc = "return" =>
        \A alone \in {extract_basic_info(<<>>, json_ld)} :
            /\ \A f \in MetadataFields : alone[f] # None => info[f] = alone[f]
            /\ alone.salary = None =>
                  /\ info.salary = ClaimedTextSalary(text)
                  /\ info.salary # None => Shaped(info.salary.v)

\* C21 witness: the metadata gives a title and no salary, both salary
\* patterns match the text, and the result keeps the title and takes the
\* salary of the first pattern.
C21_Witness ==
    /\ pc = "return"
    /\ MatchingPatterns(text) = {1, 2}
    /\ IsDict(json_ld) /\ HasField(json_ld, "title") /\ HasField(json_ld, "baseSalary")
    /\ info.title = JStr(<<"Engineer">>)
    /\ info.salary = JStr(<<"$", "25", " ", "per", " ", "hour">>)


\* ------------------------------------------------------------------------
\* SpecFaults: extract_basic_info applied to metadata with malformed
\* sub-fields and to metadata that is no mapping
\* ------------------------------------------------------------------------
GoodLocation ==
    DictOf({<<"address", DictOf({<<"addressLocality", JStr(<<"Berlin">>)>>})>>})
BadLocation ==
    DictOf({<<"address", DictOf({<<"addressLocality", JStr(<<"Berlin">>)>>,
                                 <<"addressCountry", DictOf({<<"name", None>>})>>})>>})
GoodSalary ==
    DictOf({<<"value", DictOf({<<"minValue", JNum(50000)>>, <<"maxValue", JNum(70000)>>})>>})
BadSalary ==
    DictOf({<<"value", DictOf({<<"minValue", JStr(<<"50", "000">>)>>,
                               <<"maxValue", JNum(70000)>>})>>})
BadUnit ==
    DictOf({<<"value", DictOf({<<"minValue", JNum(50000)>>, <<"unitText", None>>})>>})

FaultMeta ==
    {DictOf(Field("title", ti) \cup Field("hiringOrganization", o)
            \cup Field("jobLocation", l) \cup Field("baseSalary", sa)) :
        ti \in {NoScript, JStr(<<"Engineer">>)},
        o \in {NoScript, JStr(<<"Acme">>)},
        l \in {NoScript, GoodLocation, BadLocation},
        sa \in {NoScript, GoodSalary, BadSalary, BadUnit}}
    \cup {JList(<<JobPosting>>), JStr(<<"Engineer">>), JNum(5),
          JStr(<<"hiringOrganization">>), JList(<<JStr(<<"jobLocation">>)>>),
          JStr(<<"baseSalary">>)}

FaultTexts ==
    {<<>>, <<"Salary", ":", " ", "$", "90", ",", "000", "\n", "Remote">>}

InitFaults ==
    /\ text \in FaultTexts
    /\ json_ld \in FaultMeta
    /\ pc = "call"
    /\ Untouched({"text", "json_ld"})

SpecFaults == InitFaults /\ [][NextBasic]_vars

\* the metadata key each field is read from
KeyOf ==
    [title |-> "title", company |-> "hiringOrganization", location |-> "jobLocation",
     salary |-> "baseSalary"]

\* the metadata with no key but the one given
Only(j, key) == JDict([k \in DOMAIN j.v \cap {key} |-> j.v[k]])

\* C22: extract_basic_info never raises, whatever the metadata is (a mapping
\* with malformed sub-fields, a list, a string, a number), and a fault in one
\* field blanks no sibling: a field that the metadata with that field's key
\* alone yields has the same value in the result, and the work arrangement
\* and a salary the metadata does not give are the ones the text alone gives.
C22_FaultsIsolated ==
    /\ pc # "raise"
    /\ pc = "return" =>
          \A textual \in {extract_basic_info(text, None)} :
              /\ info.work_arrangement = textual.work_arrangement
              /\ IsDict(json_ld) =>
                    \A f \in DOMAIN KeyOf :
                        \A alone \in {extract_basic_info(<<>>, Only(json_ld, KeyOf[f]))[f]} :
                            IF alone # None THEN info[f] = alone
                            ELSE info[f] = IF f = "salary" THEN textual.salary ELSE None
              /\ ~IsDict(json_ld) =>
                    /\ info.salary = textual.salary
                    /\ \A f \in {"title", "company", "location", "employment_type"} :
                          info[f] = None

\* C22 witness: the location of the metadata is malformed (str.join raises
\* on a name that is null); the location is absent, the title, the company
\* and the salary of the metadata are kept and the work arrangement of the
\* text is found.
C22_Witness ==
    /\ pc = "return"
    /\ IsDict(json_ld) /\ BlockRaises("location", json_ld)
    /\ info.location = None
    /\ info.title = JStr(<<"Engineer">>)
    /\ info.company = JStr(<<"Acme">>)
    /\ info.salary = JStr(<<"$", "50", ",", "000", " ", "-", " ", "$", "70", ",", "000",
                            " ", "per", " ", "year">>)
    /\ info.work_arrangement = JStr(<<"Remote">>)


\* ------------------------------------------------------------------------
\* SpecFetch: scrape_job_posting with fetch_page_text taken one statement at
\* a time (scraper.py:6-67 inside scraper.py:340). calls is the log of what
\* was invoked: the fetcher, the browser's launch and close, the exit of the
\* sync_playwright block and the extraction stages.
\* ------------------------------------------------------------------------
\* a mutation of query_selector: the first script that holds JSON
RECURSIVE query_selector_parseable(_)
query_selector_parseable(scripts) ==
    IF scripts = <<>> THEN NoScript
    ELSE IF Head(scripts) # BadScript THEN Head(scripts)
    ELSE query_selector_parseable(Tail(scripts))

\* line 58: page.query_selector gives the first script of the type in
\* document order, or nothing
query_selector(scripts) == IF scripts = <<>> THEN NoScript ELSE Head(scripts)

\* a mutation of sync_playwright_exit: leaving the block stops nothing
sync_playwright_exit_idle(log) == log

\* line 8: leaving the with block, by the return or by an exception, stops
\* the Playwright driver and with it every browser the driver launched
sync_playwright_exit(log) == Append(log, Call("stop", "driver"))

\* a mutation of AfterFetchRaised: the fetch is tried again
AfterFetchRaisedRetry == "call"

\* lines 374-377: the handler of the outer try prints a warning and falls
\* through to the return of the default record
AfterFetchRaised == "return"

\* the browser the call launched is still running
RECURSIVE BrowserOpen(_)
BrowserOpen(log) ==
    IF log = <<>> THEN FALSE
    ELSE LET last == log[Len(log)]
         IN  IF last.fn = "launch" THEN TRUE
             ELSE IF last.fn \in {"close", "stop"} THEN FALSE
             ELSE BrowserOpen(SubSeq(log, 1, Len(log) - 1))

Times(fn) == Cardinality({i \in 1..Len(calls) : calls[i].fn = fn})

FetchTexts ==
    {<<>>,
     <<"Requirements", "\n", "Strong knowledge of", " ", "Go", ".", "\n", "Remote">>}
FetchScripts ==
    {<<>>, <<BadScript>>, <<JobPosting>>, <<BadScript, JobPosting>>,
     <<JobPosting, BadScript>>, <<JList(<<JobPosting>>), JobPosting>>}
FetchPages == [visible_text : FetchTexts, scripts : FetchScripts]

InitFetch ==
    /\ url \in Urls
    /\ page \in FetchPages
    /\ pc = "call"
    /\ Untouched({"url", "page"})

\* scraper.py:340 and line 8: the fetcher is called and enters the block
CallFetch ==
    /\ pc = "call"
    /\ calls' = Append(calls, Call("fetch_page_text", url))
    /\ raised' = ""
    /\ pc' = "launch"
    /\ UNCHANGED <<url, page, text, json_ld, sections, skills, info, prompt, job_data,
                   failed, request, status, reply>>
    /\ UNCHANGED <<concurrent, letters>>

\* a statement of the block raises: control leaves the block
Throw(outcome) ==
    /\ raised' = outcome
    /\ pc' = "exit"

\* line 9: chromium.launch returns a browser or raises
LaunchBrowser ==
    /\ pc = "launch"
    /\ \/ /\ calls' = Append(calls, Call("launch", "chromium"))
          /\ pc' = "goto"
          /\ UNCHANGED raised
       \/ Throw("launch_failed") /\ UNCHANGED calls
    /\ UNCHANGED <<url, page, text, json_ld, sections, skills, info, prompt, job_data,
                   failed, request, status, reply>>
    /\ UNCHANGED <<concurrent, letters>>

\* lines 10-17: the navigation returns or times out
Goto ==
    /\ pc = "goto"
    /\ \/ pc' = "evaluate" /\ UNCHANGED raised
       \/ Throw("navigation_timeout")
    /\ UNCHANGED <<url, page, text, json_ld, sections, skills, info, prompt, job_data,
                   failed, request, status, calls, reply>>
    /\ UNCHANGED <<concurrent, letters>>

\* lines 19-53: the script run in the page returns the visible text or raises
Evaluate ==
    /\ pc = "evaluate"
    /\ \/ /\ text' = page.visible_text
          /\ pc' = "json_ld"
          /\ UNCHANGED raised
       \/ Throw("evaluate_failed") /\ UNCHANGED text
    /\ UNCHANGED <<url, page, json_ld, sections, skills, info, prompt, job_data,
                   failed, request, status, calls, reply>>
    /\ UNCHANGED <<concurrent, letters>>

\* lines 56-63
ReadJsonLd ==
    /\ pc = "json_ld"
    /\ json_ld' = JsonLdOf(query_selector(page.scripts))
    /\ pc' = "close"
    /\ UNCHANGED <<url, page, text, sections, skills, info, prompt, job_data,
                   failed, request, status, calls, raised, reply>>
    /\ UNCHANGED <<concurrent, letters>>

\* line 65: browser.close returns or raises
CloseBrowser ==
    /\ pc = "close"
    /\ \/ /\ calls' = Append(calls, Call("close", "chromium"))
          /\ pc' = "exit"
          /\ UNCHANGED raised
       \/ Throw("close_failed") /\ UNCHANGED calls
    /\ UNCHANGED <<url, page, text, json_ld, sections, skills, info, prompt, job_data,
                   failed, request, status, reply>>
    /\ UNCHANGED <<concurrent, letters>>

\* line 8: the block is left; line 67 returns, or the exception goes on to
\* the caller
ExitPlaywright ==
    /\ pc = "exit"
    /\ calls' = sync_playwright_exit(calls)
    /\ pc' = IF raised = "" THEN "fetched" ELSE "fetch_raised"
    /\ UNCHANGED <<url, page, text, json_ld, sections, skills, info, prompt, job_data,
                   failed, request, status, raised, reply>>
    /\ UNCHANGED <<concurrent, letters>>

\* scraper.py:374-377
FetchRaised ==
    /\ pc = "fetch_raised"
    /\ IF Caught(raised)
       THEN pc' = AfterFetchRaised /\ job_data' = DefaultJob(url)
       ELSE pc' = "raise" /\ job_data' = None
    /\ failed' = {raised}
    /\ UNCHANGED <<url, page, text, json_ld, sections, skills, info, prompt,
                   request, status, calls, raised, reply>>
    /\ UNCHANGED <<concurrent, letters>>

StageCalls(failing) ==
    SelectSeq(<<Call("basic_info", "text"), Call("sections", "text"), Call("skills", "text")>>,
              LAMBDA c : Runs(c.fn, failing))

\* scraper.py:341-372: the stages on what the fetch returned, those of
\* failing raising
RunStages ==
    /\ pc = "fetched"
    /\ \E failing \in SUBSET Stages :
          /\ info' = IF Completes("basic_info", failing)
                     THEN extract_basic_info(text, json_ld) ELSE info
          /\ sections' = IF Completes("sections", failing)
                         THEN parse_job_text(text) ELSE sections
          /\ skills' = IF Completes("skills", failing)
                       THEN extract_skills(text) ELSE skills
          /\ failed' = failing
          /\ calls' = calls \o StageCalls(failing)
          /\ job_data' = Aggregate(url, text, info', sections', skills', failing)
    /\ pc' = "return"
    /\ UNCHANGED <<url, page, text, json_ld, prompt, request, status, raised, reply>>
    /\ UNCHANGED <<concurrent, letters>>

NextFetch ==
    \/ CallFetch \/ LaunchBrowser \/ Goto \/ Evaluate \/ ReadJsonLd \/ CloseBrowser
    \/ ExitPlaywright \/ FetchRaised \/ RunStages

SpecFetch == InitFetch /\ [][NextFetch]_vars

FetchEnded == pc \in {"fetched", "fetch_raised", "return", "raise"}

\* C23: a page with no metadata script, or with a first script that is no
\* JSON, is fetched like any other: the fetch returns the visible text with
\* empty metadata and the browser closed; and the metadata is always what the
\* first script of the page holds, whatever scripts follow it.
C23_MetadataBestEffort ==
    pc \in {"close", "exit", "fetched", "return"} /\ raised = "" =>
        /\ page.scripts = <<>> \/ Head(page.scripts) = BadScript =>
              /\ json_ld = JDict(<<>>)
              /\ pc \in {"fetched", "return"} =>
                    /\ text = page.visible_text
                    /\ Times("close") = 1 /\ ~BrowserOpen(calls)
        /\ page.scripts # <<>> /\ Head(page.scripts) # BadScript =>
              json_ld = Head(page.scripts)

\* C23 witness: the first script of the page is no JSON and a later one is
\* a job posting; the fetch has returned the text with empty metadata.
C23_Witness ==
    /\ pc = "fetched"
    /\ page.scripts = <<BadScript, JobPosting>>
    /\ page.visible_text # <<>> /\ text = page.visible_text
    /\ json_ld = JDict(<<>>)
    /\ Times("close") = 1 /\ ~BrowserOpen(calls)

\* the fetcher was invoked once, and after a fetch that raised the default
\* record is returned with no extraction stage run
FetchedOnce ==
    /\ Times("fetch_page_text") <= 1
    /\ pc # "call" => Times("fetch_page_text") = 1
    /\ pc = "return" /\ raised # "" =>
          /\ job_data = DefaultJob(url)
          /\ \A stage \in Stages : Times(stage) = 0

\* C24: in every execution of scrape_job_posting the fetcher is invoked
\* once and never again: always at most one invocation is logged, exactly one
\* once the call is under way, and from a fetch that raised the very next
\* step is the return of the default record, with no extraction stage run.
C24_FetchedOnce ==
    /\ []FetchedOnce
    /\ [][pc = "fetch_raised" => pc' = "return" /\ job_data' = DefaultJob(url)]_vars

\* C24 witness: the navigation timed out and the call returned the default
\* record after one fetch.
C24_Witness ==
    /\ pc = "return"
    /\ raised = "navigation_timeout"
    /\ Times("fetch_page_text") = 1
    /\ job_data = DefaultJob(url)

\* C25: when fetch_page_text has ended, by its return or by an exception of
\* the launch, the navigation, the evaluation or the close, no browser it
\* launched is running; nor is one after scrape_job_posting has returned.
C25_BrowserTornDown ==
    FetchEnded => ~BrowserOpen(calls)

\* C25 witness: the browser was launched, the evaluation in the page raised,
\* and the fetch has ended with the browser stopped.
C25_Witness ==
    /\ pc = "fetch_raised"
    /\ raised = "evaluate_failed"
    /\ Times("launch") = 1 /\ Times("close") = 0
    /\ ~BrowserOpen(calls)


\* ------------------------------------------------------------------------
\* SpecConcurrent: calls of scrape_job_posting running at once on worker
\* threads (api.py:254-258), interleaved statement by statement. scrapes
\* holds each call's locals, records the job_data dicts.
\* ------------------------------------------------------------------------
MaxScrapes == 2
ScrapeCalls == 1..MaxScrapes

\* a mutation of JobDataOf: one dict at module level, shared by the calls
JobDataShared(c) == 1

\* scraper.py:323-338: job_data is a dict the call creates for itself
JobDataOf(c) == c

\* the calls are for different urls, and the pages behind them differ
PageOf(c) ==
    IF c % 2 = 1
    THEN [visible_text |-> <<"Remote">>, script |-> NoScript]
    ELSE [visible_text |-> <<"Requirements", "\n", "Strong knowledge of", " ", "Go", ".">>,
          script |-> JobPosting]
ConcurrentPages == {PageOf(c) : c \in ScrapeCalls}

UrlOf(c) == "https://jobs.example/" \o ToString(c)
ConcurrentUrls == {UrlOf(c) : c \in ScrapeCalls}

InitConcurrent ==
    /\ scrapes \in [ScrapeCalls ->
          [pc : {"call"}, url : ConcurrentUrls, page : ConcurrentPages, text : {<<>>},
           json_ld : {None}, outcome : {""}, failing : {{}}, result : {None}]]
    /\ \A c \in ScrapeCalls : scrapes[c].url = UrlOf(c) /\ scrapes[c].page = PageOf(c)
    /\ records = [c \in ScrapeCalls |-> None]
    /\ pc = "call"
    /\ Untouched({"scrapes"})

Sequential ==
    <<url, page, text, json_ld, sections, skills, info, prompt, pc, job_data, failed,
      request, status, calls, raised, reply, letters>>

\* lines 323-338
CreateJobData(c) ==
    /\ scrapes[c].pc = "call"
    /\ records' = [records EXCEPT ![JobDataOf(c)] = DefaultJob(scrapes[c].url)]
    /\ scrapes' = [scrapes EXCEPT ![c].pc = "fetch"]
    /\ UNCHANGED <<Sequential, tasks, pool>>

\* lines 340-341 and 374-375
FetchPage(c) ==
    /\ scrapes[c].pc = "fetch"
    /\ \E outcome \in FetchOutcomes :
          LET fetched == fetch_page_text(scrapes[c].page, outcome)
          IN  IF fetched.ok
              THEN /\ scrapes' = [scrapes EXCEPT ![c].pc = "basic_info",
                                                 ![c].outcome = outcome,
                                                 ![c].text = fetched.text,
                                                 ![c].json_ld = fetched.json_ld]
                   /\ records' = [records EXCEPT ![JobDataOf(c)].raw_text = fetched.text]
              ELSE /\ scrapes' = [scrapes EXCEPT ![c].pc = "return", ![c].outcome = outcome]
                   /\ UNCHANGED records
    /\ UNCHANGED <<Sequential, tasks, pool>>

\* what a stage that completes writes into job_data: lines 347-353, 360-365
\* and 370
StageWrite(stage, d, t, j) ==
    CASE stage = "basic_info" ->
            LET basic_info == extract_basic_info(t, j)
            IN  [d EXCEPT !.title = basic_info.title,
                          !.company = basic_info.company,
                          !.location = basic_info.location,
                          !.employment_type = basic_info.employment_type,
                          !.salary = basic_info.salary,
                          !.work_arrangement = basic_info.work_arrangement]
      [] stage = "sections" ->
            LET secs == parse_job_text(t)
            IN  [d EXCEPT !.responsibilities = secs.responsibilities,
                          !.requirements = secs.requirements,
                          !.preferred_qualifications = secs.preferred,
                          !.benefits = secs.benefits,
                          !.about_company = secs.about_company]
      [] stage = "skills" -> [d EXCEPT !.skills_mentioned = extract_skills(t)]

AfterStage ==
    [basic_info |-> "sections", sections |-> "skills", skills |-> "return"]

\* lines 344-372: a stage completes and writes its fields, or raises and
\* leaves them
RunStage(c) ==
    /\ scrapes[c].pc \in Stages
    /\ LET stage == scrapes[c].pc
       IN  \/ /\ records' = [records EXCEPT ![JobDataOf(c)] =
                     StageWrite(stage, @, scrapes[c].text, scrapes[c].json_ld)]
              /\ scrapes' = [scrapes EXCEPT ![c].pc = AfterStage[stage]]
           \/ /\ scrapes' = [scrapes EXCEPT ![c].pc = AfterStage[stage],
                                            ![c].failing = @ \cup {stage}]
              /\ UNCHANGED records
    /\ UNCHANGED <<Sequential, tasks, pool>>

\* line 377
ReturnJobData(c) ==
    /\ scrapes[c].pc = "return"
    /\ scrapes' = [scrapes EXCEPT ![c].pc = "done", ![c].result = records[JobDataOf(c)]]
    /\ UNCHANGED <<records, Sequential, tasks, pool>>

NextConcurrent ==
    \E c \in ScrapeCalls :
        CreateJobData(c) \/ FetchPage(c) \/ RunStage(c) \/ ReturnJobData(c)

SpecConcurrent == InitConcurrent /\ [][NextConcurrent]_vars

\* the record the call returns when it runs with nothing beside it, its
\* fetch coming to the same outcome and the same stages raising
Alone(call) ==
    IF call.outcome # "ok" THEN DefaultJob(call.url)
    ELSE Aggregate(call.url, call.text,
                   extract_basic_info(call.text, call.json_ld),
                   parse_job_text(call.text), extract_skills(call.text), call.failing)

\* C26: however the statements of concurrent calls of scrape_job_posting
\* interleave, the record a call returns is the record it returns alone with
\* the same outcome of its fetch; so a fetch or a stage that fails in one
\* call changes no field of the record of another.
C26_CallsIndependent ==
    \A c \in ScrapeCalls : scrapes[c].pc = "done" => scrapes[c].result = Alone(scrapes[c])

\* C26 witness: both calls have returned; the fetch of the first timed out
\* and its record is the default one, the second returned its full record.
C26_Witness ==
    /\ scrapes[1].pc = "done" /\ scrapes[1].outcome = "navigation_timeout"
    /\ scrapes[2].pc = "done" /\ scrapes[2].outcome = "ok" /\ scrapes[2].failing = {}
    /\ scrapes[2].result.requirements # <<>>
    /\ scrapes[2].result.title = JStr(<<"Engineer">>)
    /\ scrapes[1].result = DefaultJob(scrapes[1].url)


\* ------------------------------------------------------------------------
\* SpecExecutor: concurrent /generate requests handing their blocking jobs
\* to the one executor (api.py:29, 254-277). tasks holds where each request
\* stands, pool the executor's queue and the jobs its worker threads run.
\* ------------------------------------------------------------------------
MaxRequests == 5
Clients == 1..MaxRequests

\* a mutation of max_workers: the executor starts a thread for every request
max_workers_unbounded == MaxRequests

\* api.py:29: ThreadPoolExecutor(max_workers=4)
max_workers == 4

Job(r, kind) == [req |-> r, kind |-> kind]

\* the jobs of a request in order: lines 257, 268-270 and 274-276; the scrape
\* only for a request with a job_url
FirstJob(task) == IF task.job_url THEN "scrape" ELSE "sections"
FollowingJob == [scrape |-> "sections", sections |-> "compile", compile |-> "done"]

\* the first request brings its job description with it, the others give
\* a job_url
InitExecutor ==
    /\ tasks = [r \in Clients |-> [at |-> "new", job_url |-> r > 1, job |-> "none"]]
    /\ pool = NoPool
    /\ scrapes = <<>> /\ records = <<>>
    /\ pc = "call"
    /\ Untouched({"pool"})

\* loop.run_in_executor: the job is put on the executor's queue and the
\* request waits for it
Submitted(r, kind) ==
    /\ pool' = [pool EXCEPT !.queue = Append(@, Job(r, kind))]
    /\ tasks' = [tasks EXCEPT ![r].at = "await", ![r].job = kind]

\* lines 254-270: a request comes to its first job. The requests are
\* numbered in the order in which they do.
SubmitJob(r) ==
    /\ tasks[r].at = "new"
    /\ \A earlier \in 1..(r - 1) : tasks[earlier].at # "new"
    /\ Submitted(r, FirstJob(tasks[r]))
    /\ UNCHANGED <<Sequential, scrapes, records>>

WorkerFree == Cardinality(pool.running) < max_workers

\* a worker thread with nothing to run takes the job at the head of the queue
StartJob ==
    /\ pool.queue # <<>>
    /\ WorkerFree
    /\ pool' = [queue |-> Tail(pool.queue), running |-> pool.running \cup {Head(pool.queue)}]
    /\ UNCHANGED <<Sequential, scrapes, records, tasks>>

\* the job returns and its worker is free again; the request goes on to
\* its next job, or to its response after the compilation
JobReturns(j) ==
    /\ j \in pool.running
    /\ IF FollowingJob[j.kind] = "done"
       THEN /\ pool' = [pool EXCEPT !.running = @ \ {j}]
            /\ tasks' = [tasks EXCEPT ![j.req].at = "done"]
       ELSE /\ pool' = [queue |-> Append(pool.queue, Job(j.req, FollowingJob[j.kind])),
                        running |-> pool.running \ {j}]
            /\ tasks' = [tasks EXCEPT ![j.req].at = "await",
                                      ![j.req].job = FollowingJob[j.kind]]
    /\ UNCHANGED <<Sequential, scrapes, records>>

\* the generation or the compilation raises: the worker is free again and
\* the request answers with an error (lines 298-303); the scrape does not
\* raise
JobRaises(j) ==
    /\ j \in pool.running
    /\ j.kind # "scrape"
    /\ pool' = [pool EXCEPT !.running = @ \ {j}]
    /\ tasks' = [tasks EXCEPT ![j.req].at = "done"]
    /\ UNCHANGED <<Sequential, scrapes, records>>

NextExecutor ==
    \/ \E r \in Clients : SubmitJob(r)
    \/ StartJob
    \/ \E j \in pool.running : JobReturns(j) \/ JobRaises(j)

SpecExecutor == InitExecutor /\ [][NextExecutor]_vars

\* a worker thread that has no job waits on the queue and takes the head as
\* soon as there is one
SpecExecutorFair == SpecExecutor /\ WF_vars(StartJob)

Queued(j) == \E i \in 1..Len(pool.queue) : pool.queue[i] = j
Running(j) == j \in pool.running

\* every running scrape holds at most the one browser it launched
Browsers == {j \in pool.running : j.kind = "scrape"}

\* C27: with any number of requests at once, never more than 4 jobs of the
\* executor run at the same time, scrapes, generations and compilations
\* counted together, so never more than 4 browsers exist; and a scrape that is
\* queued does not stay queued while a worker is free: it comes to run, or
\* all workers are busy.
C27_FourWorkers ==
    /\ [](Cardinality(pool.running) <= 4 /\ Cardinality(Browsers) <= 4)
    /\ \A r \in Clients :
          Queued(Job(r, "scrape")) ~> (Running(Job(r, "scrape")) \/ ~WorkerFree)

\* C27 witness: four jobs run, scrapes among them, and a further scrape
\* waits in the queue.
C27_Witness ==
    /\ Cardinality(pool.running) = 4
    /\ Cardinality(Browsers) >= 3
    /\ \E r \in Clients : Queued(Job(r, "scrape"))


\* ------------------------------------------------------------------------
\* The sections of a letter and what /generate makes of them (main.py:363-388,
\* api.py:92-156, 272-296)
\* ------------------------------------------------------------------------
\* x or default
OrElse(x, default) == IF Truthy(x) THEN x ELSE default

\* s.replace("\\n", "\n"): a backslash followed by n becomes a line break
Unescaped(s) == [i \in 1..Len(s) |-> IF s[i] = "\\n" THEN "\n" ELSE s[i]]

\* [str(p).strip() for p in raw_body if p]
RECURSIVE Paragraphs(_)
Paragraphs(ps) ==
    IF ps = <<>> THEN <<>>
    ELSE (IF Truthy(Head(ps)) THEN <<JStr(Strip(PyStr(Head(ps))))>> ELSE <<>>)
         \o Paragraphs(Tail(ps))

\* main.py:364-373
BodyList(parsed) ==
    LET raw_body == Get(parsed, "body")
        b1 == Strip(OrElse(Get(parsed, "body_1"), JStr(<<>>)).v)
        b2 == Strip(OrElse(Get(parsed, "body_2"), JStr(<<>>)).v)
        body_list == IF IsList(raw_body) THEN Paragraphs(raw_body.v)
                     ELSE IF b2 # <<>> THEN <<JStr(b1), JStr(b2)>>
                     ELSE IF b1 # <<>> THEN <<JStr(b1)>> ELSE <<>>
    IN  IF body_list = <<>> THEN <<JStr(<<>>)>> ELSE body_list

\* main.py:375-388: the sections made of the generator's output, the contact
\* read from the resume and the day
Sections(parsed, contact, today) ==
    DictOf({<<"date", JStr(today)>>,
            <<"sender_name", GetOr(contact, "name", JStr(<<"Candidate">>))>>,
            <<"sender_email", OrElse(Get(contact, "email"), JStr(<<>>))>>,
            <<"addressee", JStr(Unescaped(OrElse(Get(parsed, "addressee"), JStr(<<>>)).v))>>,
            <<"greeting", OrElse(Get(parsed, "greeting"),
                                 JStr(<<"Dear", " ", "Hiring", " ", "Manager", ",">>))>>,
            <<"intro", OrElse(Get(parsed, "intro"), JStr(<<>>))>>,
            <<"body", JList(BodyList(parsed))>>,
            <<"closing", OrElse(Get(parsed, "closing"), JStr(<<>>))>>,
            <<"sincerely", JStr(<<"Sincerely", " ", "yours", ",">>)>>,
            <<"signature", OrElse(Get(parsed, "signature"),
                                  GetOr(contact, "name", JStr(<<"Candidate">>)))>>})

\* api.py:96-102: every backslash, then each of & % # $ _ { }
EscapeLexeme(c) ==
    CASE c = "\\" -> "\\textbackslash "
      [] c \in {"&", "%", "#", "$", "_", "{", "}"} -> "\\" \o c
      [] OTHER -> c
escape_latex(s) == [i \in 1..Len(s) |-> EscapeLexeme(s[i])]

\* sections.get(key) or ""
TextOf(secs, key) == OrElse(Get(secs, key), JStr(<<>>)).v

\* the lines of s that are not blank
FilledLines(s) == SelectSeq(LinesOf(s), LAMBDA line : Strip(line) # <<>>)

\* api.py:105-127
sections_to_template_fields(secs) ==
    LET sender_name == Strip(TextOf(secs, "sender_name"))
        sender_email == Strip(TextOf(secs, "sender_email"))
        filled == FilledLines(TextOf(secs, "addressee"))
    IN  [date |-> TextOf(secs, "date"),
         sender_block |-> IF sender_email # <<>>
                          THEN sender_name \o <<"\n">> \o sender_email ELSE sender_name,
         addressee_tex |-> Join(<<"\n">>, [i \in 1..Len(filled) |-> Strip(filled[i])]),
         greeting |-> TextOf(secs, "greeting"),
         intro |-> TextOf(secs, "intro"),
         body_1 |-> TextOf(secs, "body_1"),
         body_2 |-> TextOf(secs, "body_2"),
         closing |-> TextOf(secs, "closing"),
         sincerely |-> OrElse(Get(secs, "sincerely"), JStr(<<"Sincerely", " ", "yours", ",">>)).v,
         signature |-> TextOf(secs, "signature")]

\* api.py:132-151: what is put in the place of each placeholder
Replacements(secs) ==
    LET sender_name == escape_latex(TextOf(secs, "sender_name"))
        sender_email == escape_latex(TextOf(secs, "sender_email"))
        filled == FilledLines(TextOf(secs, "addressee"))
        addressee_tex == Join(<<" \\\\\n  ">>, [i \in 1..Len(filled) |-> escape_latex(filled[i])])
    IN  [sender_block |-> IF sender_email # <<>>
                          THEN sender_name \o <<" \\\\\n  ">> \o sender_email ELSE sender_name,
         addressee_tex |-> IF addressee_tex # <<>> THEN addressee_tex ELSE <<" ">>,
         date |-> escape_latex(TextOf(secs, "date")),
         greeting |-> escape_latex(TextOf(secs, "greeting")),
         intro |-> escape_latex(TextOf(secs, "intro")),
         body_1 |-> escape_latex(TextOf(secs, "body_1")),
         body_2 |-> escape_latex(TextOf(secs, "body_2")),
         closing |-> escape_latex(TextOf(secs, "closing")),
         sincerely |-> escape_latex(
             OrElse(Get(secs, "sincerely"), JStr(<<"Sincerely", " ", "yours", ",">>)).v),
         signature |-> escape_latex(TextOf(secs, "signature"))]

\* cover_letter_template.tex (read at api.py:92-93) by its placeholders, one
\* {{key}} for each key of the replacements, with the LaTeX between them
CoverLetterTemplate ==
    <<"date", "sender_block", "addressee_tex", "greeting", "intro", "body_1", "body_2",
      "closing", "sincerely", "signature">>

\* api.py:130-156: the template with every placeholder replaced, as the
\* sequence of what was put in
build_tex_from_sections(secs) ==
    [i \in 1..Len(CoverLetterTemplate) |-> Replacements(secs)[CoverLetterTemplate[i]]]

\* ------------------------------------------------------------------------
\* SpecLetter: what the generator returned, the sections made of it and the
\* answer of /generate
\* ------------------------------------------------------------------------
FirstParagraph == <<"I", " ", "built", " ", "R", "&", "D", " ", "tools", ".">>
SecondParagraph == <<"I", " ", "cut", " ", "costs", " ", "by", " ", "50", "%", ".">>

GeneratedBodies ==
    {NoScript, JList(<<>>), JList(<<JStr(FirstParagraph)>>),
     JList(<<JStr(FirstParagraph), JStr(SecondParagraph)>>),
     JList(<<JStr(<<>>), JStr(SecondParagraph)>>),
     JList(<<JStr(<<" ">> \o FirstParagraph), JNum(5)>>)}

Generated ==
    {DictOf(Field("body", body) \cup Field("body_1", b1) \cup Field("body_2", b2)
            \cup Field("intro", intro) \cup Field("addressee", addressee)) :
        body \in GeneratedBodies,
        b1 \in {NoScript, JStr(FirstParagraph)},
        b2 \in {NoScript, JStr(SecondParagraph)},
        intro \in {NoScript, JStr(<<"I", " ", "am", " ", "applying", ".">>)},
        addressee \in {NoScript, JStr(<<"Acme", "\\n", "Berlin">>)}}

Contact == DictOf({<<"name", JStr(<<"Ada">>)>>, <<"email", JStr(<<"ada", "@", "example", ".", "org">>)>>})
Today == <<"November", " ", "03", ",", " ", "2026">>

InitLetter ==
    /\ reply \in Generated
    /\ pc = "generate"
    /\ Untouched({"reply"})

\* api.py:268-270: generate_cover_letter_sections returns the sections
GenerateSections ==
    /\ pc = "generate"
    /\ letter' = Sections(reply, Contact, Today)
    /\ pc' = "sections"
    /\ UNCHANGED <<url, page, text, json_ld, sections, skills, info, prompt, job_data,
                   failed, request, status, calls, raised, reply, response, injection>>
    /\ UNCHANGED concurrent

\* api.py:272-296: the LaTeX is built of the sections and the fields of the
\* response are taken from them
Respond ==
    /\ pc = "sections"
    /\ response' = [latex |-> build_tex_from_sections(letter),
                    sections |-> letter,
                    fields |-> sections_to_template_fields(letter)]
    /\ pc' = "response"
    /\ UNCHANGED <<url, page, text, json_ld, sections, skills, info, prompt, job_data,
                   failed, request, status, calls, raised, reply, letter, injection>>
    /\ UNCHANGED concurrent

NextLetter == GenerateSections \/ Respond

SpecLetter == InitLetter /\ [][NextLetter]_vars

BodyFields == <<"body_1", "body_2">>

\* the k-th body paragraph of the sections, if there is one that is not empty
BodyParagraph(k) ==
    IF k <= Len(letter.v["body"].v) /\ letter.v["body"].v[k].v # <<>>
    THEN letter.v["body"].v[k].v ELSE <<>>

\* C28: the first and the second body paragraph of the sections that
\* generate_cover_letter_sections made are in the answer of /generate: the
\* field body_1 (body_2) of the response is the paragraph, and the paragraph,
\* escaped, is among what was injected into the LaTeX.
C28_BodyReachesOutput ==
    pc = "response" =>
        \A k \in 1..2 :
            BodyParagraph(k) # <<>> =>
                /\ response.fields[BodyFields[k]] = BodyParagraph(k)
                /\ \E i \in 1..Len(response.latex) :
                      response.latex[i] = escape_latex(BodyParagraph(k))

\* what holds in place of C28: the sections carry the paragraphs under the
\* key body, and the response under body_1 and body_2 and the LaTeX have
\* nothing of them
BodyDropped ==
    pc = "response" =>
        /\ response.fields.body_1 = <<>> /\ response.fields.body_2 = <<>>
        /\ response.latex[6] = <<>> /\ response.latex[7] = <<>>


\* ------------------------------------------------------------------------
\* SpecEdit: edit_letter_by_instruction (main.py:416-488) on the sections of
\* a letter and on what the edit chain returned
\* ------------------------------------------------------------------------
\* [str(p).strip() for p in body_list]
EditedParagraphs(ps) == [i \in 1..Len(ps) |-> JStr(Strip(PyStr(ps[i])))]

\* parsed.get(key) or sections.get(key) or ""
Merged(parsed, secs, key) ==
    OrElse(Get(parsed, key), OrElse(Get(secs, key), JStr(<<>>)))

\* main.py:473-488
edit_letter_by_instruction(secs, parsed) ==
    LET body_list == IF IsList(Get(parsed, "body"))
                     THEN EditedParagraphs(Get(parsed, "body").v)
                     ELSE <<JStr(<<>>)>>
        merged == [addressee |-> JStr(Unescaped(Merged(parsed, secs, "addressee").v)),
                   greeting |-> Merged(parsed, secs, "greeting"),
                   intro |-> Merged(parsed, secs, "intro"),
                   body |-> JList(body_list),
                   closing |-> Merged(parsed, secs, "closing"),
                   signature |-> Merged(parsed, secs, "signature")]
    IN  JDict([k \in DOMAIN secs.v \cup DOMAIN merged |->
                  IF k \in DOMAIN merged THEN merged[k] ELSE secs.v[k]])

CurrentLetters ==
    {Sections(parsed, Contact, Today) :
        parsed \in {DictOf({<<"body", JList(<<JStr(FirstParagraph), JStr(SecondParagraph)>>)>>,
                            <<"intro", JStr(<<"I", " ", "am", " ", "applying", ".">>)>>,
                            <<"addressee", JStr(<<"Acme", "\n", "Berlin">>)>>,
                            <<"closing", JStr(<<"Thank", " ", "you", ".">>)>>}),
                    DictOf({<<"body", JList(<<JStr(FirstParagraph)>>)>>})}}

Rewritten == JStr(<<"Rewritten", ".">>)

EditOutputs ==
    {DictOf(Field("addressee", addressee) \cup Field("greeting", greeting)
            \cup Field("intro", intro) \cup Field("body", body)
            \cup Field("closing", closing) \cup Field("signature", signature)
            \cup Field("date", date)) :
        addressee \in {NoScript, Rewritten},
        greeting \in {NoScript, JStr(<<>>)},
        intro \in {NoScript, JStr(<<>>), Rewritten},
        body \in {NoScript, None, JList(<<>>), JList(<<Rewritten>>)},
        closing \in {NoScript, None, Rewritten},
        signature \in {NoScript, Rewritten},
        date \in {NoScript, Rewritten}}

InitEdit ==
    /\ letter \in CurrentLetters
    /\ reply \in EditOutputs
    /\ pc = "edit"
    /\ Untouched({"letter", "reply"})

\* the call: the sections are replaced by the proposed ones
EditLetter ==
    /\ pc = "edit"
    /\ letter' = edit_letter_by_instruction(letter, reply)
    /\ pc' = "edited"
    /\ UNCHANGED <<url, page, text, json_ld, sections, skills, info, prompt, job_data,
                   failed, request, status, calls, raised, reply, response, injection>>
    /\ UNCHANGED concurrent

NextEdit == EditLetter

SpecEdit == InitEdit /\ [][NextEdit]_vars

KeptFields == {"date", "sender_name", "sender_email", "sincerely"}
EditableFields == {"addressee", "greeting", "intro", "body", "closing", "signature"}

\* the edit output leaves the field out or gives it empty
NotSupplied(parsed, key) == ~Truthy(Get(parsed, key))

\* C29: the edit changes no field that the edit output does not supply:
\* date, sender_name, sender_email and sincerely are after the edit what they
\* were before, and so is each of addressee, greeting, intro, body, closing and
\* signature that the output leaves out or gives empty.
C29_UnsuppliedFieldsKept ==
    [][pc = "edit" =>
          /\ \A key \in KeptFields : Get(letter', key) = Get(letter, key)
          /\ \A key \in EditableFields :
                NotSupplied(reply, key) => Get(letter', key) = Get(letter, key)]_vars

\* what holds in place of C29: every field but body is kept as the claim
\* says, and a body the output leaves out or gives null is replaced by one
\* empty paragraph, an empty list by no paragraph
AllButBodyKept ==
    [][pc = "edit" =>
          /\ \A key \in KeptFields : Get(letter', key) = Get(letter, key)
          /\ \A key \in EditableFields \ {"body"} :
                NotSupplied(reply, key) => Get(letter', key) = Get(letter, key)
          /\ NotSupplied(reply, "body") =>
                Get(letter', "body") \in {JList(<<JStr(<<>>)>>), JList(<<>>)}]_vars


\* ------------------------------------------------------------------------
\* SpecInjection: build_template_injection (embeddings.py:191-208), called
\* by _templates_to_injection_block (chains.py:55-58), one pass of its loop
\* at a time. Here a string is the sequence of its characters.
\* ------------------------------------------------------------------------
MaxTemplates == 2
MaxBudget == 5

\* s.rfind(" "), for s with a space in it
RFindSpace(s) == (CHOOSE i \in 1..Len(s) : s[i] = " " /\ \A k \in (i + 1)..Len(s) : s[k] # " ") - 1

\* a mutation of Chunk: the content is placed whole
ChunkWhole(content, remaining) == content

\* lines 201-203: the content cut to the budget and, when something was cut
\* off, back to before its last space
Chunk(content, remaining) ==
    LET chunk == Slice(content, 0, remaining)
    IN  IF Len(content) > remaining /\ \E i \in 1..Len(chunk) : chunk[i] = " "
        THEN Slice(chunk, 0, RFindSpace(chunk))
        ELSE chunk

\* line 198
ContentOf(t) == Strip(OrElse(Get(t, "content"), JStr(<<>>)).v)

\* lines 204 and 208
InjectionBlock(parts) ==
    <<"\n\n=== SIMILAR PAST LETTERS (for style/structure inspiration only) ===\n">>
    \o Join(<<"\n", "\n">>,
            [k \in 1..Len(parts) |->
                <<"--- Similar letter ", ToString(parts[k].i), " ---\n">> \o parts[k].chunk])
    \o <<"\n=== END ===\n\n">>

Contents ==
    {None, JStr(<<>>), JStr(<<" ">>), JStr(<<"a">>), JStr(<<"a", "b">>),
     JStr(<<"a", " ", "b">>), JStr(<<" ", "a", "b", " ">>),
     JStr(<<"a", "b", " ", "c", "d">>), JStr(<<"a", "b", "c", "d", "e", "f">>)}
TemplateDicts == {DictOf({<<"content", c>>}) : c \in Contents}
TemplateLists == UNION {[1..n -> TemplateDicts] : n \in 0..MaxTemplates}

InitInjection ==
    /\ injection \in [templates : TemplateLists, max_chars_total : 0..MaxBudget, at : {"call"}]
    /\ pc = "call"
    /\ Untouched({"injection"})

NotInjection ==
    <<url, page, text, json_ld, sections, skills, info, prompt, pc, job_data, failed,
      request, status, calls, raised, reply, letter, response, concurrent>>

\* lines 193-196
EnterInjection ==
    /\ injection.at = "call"
    /\ injection' =
          IF ~Truthy(JList(injection.templates))
          THEN [templates |-> injection.templates,
                max_chars_total |-> injection.max_chars_total,
                at |-> "done", result |-> <<>>]
          ELSE [templates |-> injection.templates,
                max_chars_total |-> injection.max_chars_total,
                at |-> "loop", i |-> 1, parts |-> <<>>,
                remaining |-> injection.max_chars_total]
    /\ UNCHANGED NotInjection

\* lines 197-205: one pass of the loop
PlaceTemplate ==
    /\ injection.at = "loop"
    /\ injection.i <= Len(injection.templates)
    /\ LET content == ContentOf(injection.templates[injection.i])
           chunk == Chunk(content, injection.remaining)
       IN  injection' =
              IF content = <<>> \/ injection.remaining <= 0
              THEN [injection EXCEPT !.i = @ + 1]
              ELSE [injection EXCEPT !.i = @ + 1,
                                     !.parts = Append(@, [i |-> injection.i, chunk |-> chunk]),
                                     !.remaining = @ - Len(chunk)]
    /\ UNCHANGED NotInjection

\* lines 206-208
ReturnBlock ==
    /\ injection.at = "loop"
    /\ injection.i > Len(injection.templates)
    /\ injection' =
          [templates |-> injection.templates,
           max_chars_total |-> injection.max_chars_total,
           at |-> "done", parts |-> injection.parts, remaining |-> injection.remaining,
           result |-> IF injection.parts = <<>> THEN <<>> ELSE InjectionBlock(injection.parts)]
    /\ UNCHANGED NotInjection

NextInjection == EnterInjection \/ PlaceTemplate \/ ReturnBlock

SpecInjection == InitInjection /\ [][NextInjection]_vars

\* the chunks placed so far
Placed == IF "parts" \in DOMAIN injection THEN injection.parts ELSE <<>>

RECURSIVE PlacedLength(_)
PlacedLength(parts) ==
    IF parts = <<>> THEN 0 ELSE Len(Head(parts).chunk) + PlacedLength(Tail(parts))

\* C30: for every list of templates and every max_chars_total >= 0, the
\* lengths of the chunks placed add up to max_chars_total at most, the
\* remaining budget is never negative, and the result is the empty string when
\* no template has contributed a chunk.
C30_BudgetKept ==
    /\ PlacedLength(Placed) <= injection.max_chars_total
    /\ "remaining" \in DOMAIN injection =>
          /\ injection.remaining >= 0
          /\ injection.remaining = injection.max_chars_total - PlacedLength(Placed)
    /\ injection.at = "done" /\ Placed = <<>> => injection.result = <<>>

\* C30 witness: two templates were placed with a budget of 5, the first
\* whole and the second cut before its last space, and the budget is not used
\* up.
C30_Witness ==
    /\ injection.at = "done"
    /\ injection.max_chars_total = 5
    /\ Len(Placed) = 2
    /\ Placed[1].chunk = <<"a">>
    /\ Placed[2].chunk = <<"a", "b">>
    /\ ContentOf(injection.templates[2]) = <<"a", "b", " ", "c", "d">>
    /\ injection.remaining = 2

=============================================================================
